---- MODULE Spec2Model ----
(***************************************************************************)
(* The document-processing workflow of StepFunction_Jsonata               *)
(* (stepFunction.asl.json as printed in BLOG_POST_2.md) run by a state     *)
(* machine runtime: a JSON document is threaded through Task, Choice,      *)
(* Pass and Fail states with path-scoped input, parameters and results,    *)
(* retry with exponential backoff, and catch.                              *)
(*                                                                         *)
(* Confidence values are kept in hundredths (0.7 is 70, 0.94 is 94).       *)
(***************************************************************************)
EXTENDS Integers, Sequences, FiniteSets, TLC

VARIABLES
    current,    \* name of the state in flight (the last one once terminated)
    status,     \* "Running", "Succeeded", "Failed", "Crashed" or "Cancelled"
    doc,        \* the live document
    phase,      \* "ready" to run the step, or "waiting" in a retry backoff
    retries,    \* retries consumed per retry rule of the current step
    waited,     \* delay waited (or being waited) before the next attempt
    elapsed,    \* total backoff time waited so far
    calls,      \* one record per invocation attempt of a unit of work
    history,    \* one record per completed step
    failure,    \* category and cause of a Failed or Crashed termination
    cancelRequested, \* the cancellation signal of the execution
    pre,        \* path resolver harness: document before injection
    ipath,      \* path resolver harness: result path
    ires,       \* path resolver harness: result
    post,       \* path resolver harness: document after injection
    projecting, \* path resolver harness: the step whose input is computed
    projected,  \* path resolver harness: what that step sends or yields
    graph,      \* graph validation: the graph handed to the interpreter
    verdict,    \* graph validation: "pending", "accepted" or "rejected"
    executing,  \* graph validation: an execution of the graph has started
    handler,    \* Lambda harness: the handler that ran ("" before)
    event,      \* Lambda harness: the event it is invoked with
    rnd,        \* Lambda harness: what Math.random() yields
    now,        \* Lambda harness: what new Date() yields
    response,   \* Lambda harness: the value the handler returned
    requests,   \* Lambda harness: outbound HTTP requests the handler made
    task,       \* retry harness: the definition of the step being attempted
    spent,      \* retry harness: retries consumed per retry rule
    attempts,   \* retry harness: each failed attempt and what was done about it
    dirs,       \* install script: the folders directly under the workspace root
    invokedFrom, \* install script: the location the script was started in
    pc,         \* install script: where the script is
    cursor,     \* install script: position of the foreach loop
    cwd,        \* install script: the current location
    locations,  \* install script: the location stack
    successCount, \* install script: $successCount
    failCount,  \* install script: $failCount
    exitCode,   \* install script: the exit code, -1 while running
    installed   \* install script: one record per run of npm install

runVars == <<current, status, doc, phase, retries, waited, elapsed, calls,
             history, failure, cancelRequested>>
injectVars == <<pre, ipath, ires, post, projecting, projected>>
validateVars == <<graph, verdict, executing>>
lambdaVars == <<handler, event, rnd, now, response, requests>>
retryVars == <<task, spent, attempts>>
installVars == <<dirs, invokedFrom, pc, cursor, cwd, locations, successCount,
                 failCount, exitCode, installed>>
harnessVars == <<injectVars, validateVars, lambdaVars, retryVars, installVars>>
vars == <<runVars, harnessVars>>

----------------------------------------------------------------------------
(* JSON values: tagged scalars and objects (a function from field names).  *)

Null == [t |-> "null"]
Num(n) == [t |-> "num", n |-> n]
Str(s) == [t |-> "str", s |-> s]
Bool(b) == [t |-> "bool", b |-> b]
Obj(f) == [t |-> "obj", f |-> f]
Arr(a) == [t |-> "arr", a |-> a]

NoFields == [k \in {} |-> Null]
Put(f, k, v) == [j \in DOMAIN f \cup {k} |-> IF j = k THEN v ELSE f[j]]

Fields(v) == IF v.t = "obj" THEN DOMAIN v.f ELSE {}

Root == <<>>

\* Document Model: read at a path; an absent segment reads as null.
RECURSIVE get(_, _)
get(v, path) ==
    IF path = Root THEN v
    ELSE IF Head(path) \in Fields(v) THEN get(v.f[Head(path)], Tail(path))
    ELSE Null

\* Document Model: write at a path, creating intermediate objects.
RECURSIVE set(_, _, _)
set(v, path, value) ==
    IF path = Root THEN value
    ELSE LET k == Head(path)
             base == IF v.t = "obj" THEN v.f ELSE NoFields
             child == IF k \in DOMAIN base THEN base[k] ELSE Obj(NoFields)
         IN  Obj(Put(base, k, set(child, Tail(path), value)))

----------------------------------------------------------------------------
(* Expressions used in Parameters.                                         *)

PathE(p) == [e |-> "path", p |-> p]
LitE(v) == [e |-> "lit", v |-> v]
EqE(a, b) == [e |-> "eq", a |-> a, b |-> b]
CondE(c, a, b) == [e |-> "cond", c |-> c, a |-> a, b |-> b]

RECURSIVE eval(_, _)
eval(x, d) ==
    CASE x.e = "path" -> get(d, x.p)
      [] x.e = "lit" -> x.v
      [] x.e = "eq" -> Bool(eval(x.a, d) = eval(x.b, d))
      [] x.e = "cond" -> IF eval(x.c, d) = Bool(TRUE) THEN eval(x.a, d)
                         ELSE eval(x.b, d)

\* A Parameters field: "name.$" is an expression reference, "name" a literal.
Ref(x) == [ref |-> TRUE, x |-> x]
Lit(v) == [ref |-> FALSE, x |-> v]

----------------------------------------------------------------------------
(* Path Resolver.                                                          *)

\* Mutation: the input path is ignored.
restrictInputWhole(d, st) == d

restrictInput(d, st) ==
    IF "InputPath" \in DOMAIN st THEN get(d, st.InputPath) ELSE d

projectParameters(d, params) ==
    Obj([k \in DOMAIN params |->
            IF params[k].ref THEN eval(params[k].x, d) ELSE params[k].x])

\* Mutation: injection at a path starts from an empty document.
injectResultDropping(d, path, result) ==
    IF path = Root THEN result ELSE set(Obj(NoFields), path, result)

\* Mutation: injection at the root keeps the prior fields the result lacks.
injectResultKeeping(d, path, result) ==
    IF path = Root
    THEN IF d.t = "obj" /\ result.t = "obj"
         THEN Obj([k \in DOMAIN d.f \cup DOMAIN result.f |->
                      IF k \in DOMAIN result.f THEN result.f[k] ELSE d.f[k]])
         ELSE result
    ELSE set(d, path, result)

injectResult(d, path, result) ==
    IF path = Root THEN result ELSE set(d, path, result)

\* Mutation: a declared input path wins over the parameters.
effectiveInputPathFirst(d, st) ==
    IF "InputPath" \in DOMAIN st THEN restrictInput(d, st)
    ELSE IF "Parameters" \in DOMAIN st THEN projectParameters(d, st.Parameters)
    ELSE d

\* What a step sends to its unit of work (or uses as the Pass result).
effectiveInput(d, st) ==
    IF "Parameters" \in DOMAIN st THEN projectParameters(d, st.Parameters)
    ELSE restrictInput(d, st)

\* A step that declares no ResultPath leaves the document as it is: the
\* root replacement is never taken by default.
absorb(d, st, result) ==
    IF "ResultPath" \in DOMAIN st THEN injectResult(d, st.ResultPath, result)
    ELSE d

----------------------------------------------------------------------------
(* The workflow document (stepFunction.asl.json).                          *)

StartAt == "ClassifyDocument"

\* Mutation: the retry rule with BackoffRate 1.
ClassifyDocumentBackoff1 ==
    [Type |-> "Task", Resource |-> "DocumentClassifier",
     ResultPath |-> <<"classificationResult">>,
     Next |-> "CheckClassification",
     Retry |-> << [ErrorEquals |-> {"States.TaskFailed"},
                   IntervalSeconds |-> 2, MaxAttempts |-> 3,
                   BackoffRate |-> 1] >>,
     Catch |-> << [ErrorEquals |-> {"States.ALL"},
                   ResultPath |-> <<"error">>,
                   Next |-> "ClassificationFailed"] >>]

\* Mutation: the retry rule with IntervalSeconds 3.
ClassifyDocumentInterval3 ==
    [Type |-> "Task", Resource |-> "DocumentClassifier",
     ResultPath |-> <<"classificationResult">>,
     Next |-> "CheckClassification",
     Retry |-> << [ErrorEquals |-> {"States.TaskFailed"},
                   IntervalSeconds |-> 3, MaxAttempts |-> 3,
                   BackoffRate |-> 2] >>,
     Catch |-> << [ErrorEquals |-> {"States.ALL"},
                   ResultPath |-> <<"error">>,
                   Next |-> "ClassificationFailed"] >>]

\* Mutation: the retry rule with MaxAttempts 2.
ClassifyDocumentTwoRetries ==
    [Type |-> "Task", Resource |-> "DocumentClassifier",
     ResultPath |-> <<"classificationResult">>,
     Next |-> "CheckClassification",
     Retry |-> << [ErrorEquals |-> {"States.TaskFailed"},
                   IntervalSeconds |-> 2, MaxAttempts |-> 2,
                   BackoffRate |-> 2] >>,
     Catch |-> << [ErrorEquals |-> {"States.ALL"},
                   ResultPath |-> <<"error">>,
                   Next |-> "ClassificationFailed"] >>]

\* Mutation: the catch rule stores the error at the root.
ClassifyDocumentCatchAtRoot ==
    [Type |-> "Task", Resource |-> "DocumentClassifier",
     ResultPath |-> <<"classificationResult">>,
     Next |-> "CheckClassification",
     Retry |-> << [ErrorEquals |-> {"States.TaskFailed"},
                   IntervalSeconds |-> 2, MaxAttempts |-> 3,
                   BackoffRate |-> 2] >>,
     Catch |-> << [ErrorEquals |-> {"States.ALL"},
                   ResultPath |-> Root,
                   Next |-> "ClassificationFailed"] >>]

\* Mutation: the Next of ClassifyDocument misspelt.
ClassifyDocumentMisspeltNext ==
    [Type |-> "Task",
     Resource |-> "DocumentClassifier",
     ResultPath |-> <<"classificationResult">>,
     Next |-> "checkClassification",
     Retry |-> <<[ErrorEquals |-> {"States.TaskFailed"},
                  IntervalSeconds |-> 2, MaxAttempts |-> 3, BackoffRate |-> 2]>>,
     Catch |-> <<[ErrorEquals |-> {"States.ALL"},
                  ResultPath |-> <<"error">>,
                  Next |-> "ClassificationFailed"]>>]

\* Mutation: the retry rule of ClassifyDocument also names States.Timeout.
ClassifyDocumentRetryTimeout ==
    [Type |-> "Task", Resource |-> "DocumentClassifier",
     ResultPath |-> <<"classificationResult">>,
     Next |-> "CheckClassification",
     Retry |-> << [ErrorEquals |-> {"States.TaskFailed", "States.Timeout"},
                   IntervalSeconds |-> 2, MaxAttempts |-> 3,
                   BackoffRate |-> 2] >>,
     Catch |-> << [ErrorEquals |-> {"States.ALL"},
                   ResultPath |-> <<"error">>,
                   Next |-> "ClassificationFailed"] >>]

ClassifyDocument ==
    [Type |-> "Task", Resource |-> "DocumentClassifier",
     ResultPath |-> <<"classificationResult">>,
     Next |-> "CheckClassification",
     Retry |-> << [ErrorEquals |-> {"States.TaskFailed"},
                   IntervalSeconds |-> 2, MaxAttempts |-> 3,
                   BackoffRate |-> 2] >>,
     Catch |-> << [ErrorEquals |-> {"States.ALL"},
                   ResultPath |-> <<"error">>,
                   Next |-> "ClassificationFailed"] >>]

\* Mutation: the two conditions in the other order.
CheckClassificationSwapped ==
    [Type |-> "Choice",
     Choices |-> << [Variable |-> <<"classificationResult", "confidence">>,
                     NumericLessThan |-> 70,
                     Next |-> "ManualReview"],
                    [Variable |-> <<"classificationResult", "documentType">>,
                     IsNull |-> TRUE,
                     Next |-> "ClassificationFailed"] >>,
     Default |-> "TransformForExtraction"]

\* Mutation: the routing of the README's workflow guide.
CheckClassificationGuide ==
    [Type |-> "Choice",
     Choices |-> << [Variable |-> <<"classificationResult", "confidence">>,
                     NumericLessThan |-> 70,
                     Next |-> "ClassificationFailed"] >>,
     Default |-> "TransformForExtraction"]

\* Mutation: the confidence threshold at 0.5.
CheckClassificationHalf ==
    [Type |-> "Choice",
     Choices |-> << [Variable |-> <<"classificationResult", "documentType">>,
                     IsNull |-> TRUE,
                     Next |-> "ClassificationFailed"],
                    [Variable |-> <<"classificationResult", "confidence">>,
                     NumericLessThan |-> 50,
                     Next |-> "ManualReview"] >>,
     Default |-> "TransformForExtraction"]

\* Mutation: the confidence threshold at 0, below which no confidence is.
CheckClassificationUnreviewed ==
    [Type |-> "Choice",
     Choices |-> << [Variable |-> <<"classificationResult", "documentType">>,
                     IsNull |-> TRUE,
                     Next |-> "ClassificationFailed"],
                    [Variable |-> <<"classificationResult", "confidence">>,
                     NumericLessThan |-> 0,
                     Next |-> "ManualReview"] >>,
     Default |-> "TransformForExtraction"]

CheckClassification ==
    [Type |-> "Choice",
     Choices |-> << [Variable |-> <<"classificationResult", "documentType">>,
                     IsNull |-> TRUE,
                     Next |-> "ClassificationFailed"],
                    [Variable |-> <<"classificationResult", "confidence">>,
                     NumericLessThan |-> 70,
                     Next |-> "ManualReview"] >>,
     Default |-> "TransformForExtraction"]

MergeQuery ==
    Str("$merge([$.document, {'metadata': {'classified': true, 'type': $.classificationResult.documentType}}])")

\* Mutation: the transform step given a unit of work to invoke.
TransformForExtractionInvoking ==
    [Type |-> "Task", Resource |-> "DataExtractor",
     Parameters |->
        [document |-> Ref(PathE(<<"document">>)),
         documentType |-> Ref(PathE(<<"classificationResult", "documentType">>)),
         confidence |-> Ref(PathE(<<"classificationResult", "confidence">>)),
         QueryLanguage |-> Lit(Str("JSONata")),
         Query |-> Lit(MergeQuery)],
     ResultPath |-> <<"extractionInput">>,
     Next |-> "ExtractDocumentData"]

TransformForExtraction ==
    [Type |-> "Pass",
     Parameters |->
        [document |-> Ref(PathE(<<"document">>)),
         documentType |-> Ref(PathE(<<"classificationResult", "documentType">>)),
         confidence |-> Ref(PathE(<<"classificationResult", "confidence">>)),
         QueryLanguage |-> Lit(Str("JSONata")),
         Query |-> Lit(MergeQuery)],
     ResultPath |-> <<"extractionInput">>,
     Next |-> "ExtractDocumentData"]

\* Mutation: ExtractDocumentData with a catch rule.
ExtractDocumentDataCaught ==
    [Type |-> "Task", Resource |-> "DataExtractor",
     InputPath |-> <<"extractionInput">>,
     ResultPath |-> <<"extractionResult">>,
     Next |-> "ProcessExtractedData",
     Catch |-> << [ErrorEquals |-> {"States.ALL"},
                   ResultPath |-> <<"error">>,
                   Next |-> "ClassificationFailed"] >>]

ExtractDocumentData ==
    [Type |-> "Task", Resource |-> "DataExtractor",
     InputPath |-> <<"extractionInput">>,
     ResultPath |-> <<"extractionResult">>,
     Next |-> "ProcessExtractedData"]

ActionQuery ==
    Str("{'action': documentType = 'INVOICE' ? 'processPayment' : 'createOrder', 'payload': data}")

\* Mutation: the two branches of the ternary exchanged.
ActionTypeExprInverted ==
    CondE(EqE(PathE(<<"extractionInput", "documentType">>), LitE(Str("INVOICE"))),
          LitE(Str("createOrder")), LitE(Str("processPayment")))

ActionTypeExpr ==
    CondE(EqE(PathE(<<"extractionInput", "documentType">>), LitE(Str("INVOICE"))),
          LitE(Str("processPayment")), LitE(Str("createOrder")))

ProcessExtractedData ==
    [Type |-> "Task", Resource |-> "BusinessAction",
     Parameters |->
        [actionType |-> Ref(ActionTypeExpr),
         extractedData |-> Ref(PathE(<<"extractionResult", "extractedData">>)),
         documentId |-> Ref(PathE(<<"document", "id">>)),
         QueryLanguage |-> Lit(Str("JSONata")),
         Query |-> Lit(ActionQuery)],
     End |-> TRUE]

ManualReview ==
    [Type |-> "Task", Resource |-> "sns:publish",
     Parameters |->
        [TopicArn |-> Lit(Str("ManualReviewTopicArn")),
         Message |-> Ref(PathE(<<"document", "key">>))],
     End |-> TRUE]

ClassificationFailed ==
    [Type |-> "Fail", Error |-> "ClassificationError",
     Cause |-> "Unable to classify document"]

StateNames ==
    {"ClassifyDocument", "CheckClassification", "TransformForExtraction",
     "ExtractDocumentData", "ProcessExtractedData", "ManualReview",
     "ClassificationFailed"}

States(name) ==
    CASE name = "ClassifyDocument" -> ClassifyDocument
      [] name = "CheckClassification" -> CheckClassification
      [] name = "TransformForExtraction" -> TransformForExtraction
      [] name = "ExtractDocumentData" -> ExtractDocumentData
      [] name = "ProcessExtractedData" -> ProcessExtractedData
      [] name = "ManualReview" -> ManualReview
      [] name = "ClassificationFailed" -> ClassificationFailed

----------------------------------------------------------------------------
(* The classifier handler as shipped.  Math.random() is a drawn value in   *)
(* units of 0.00001; the raw confidence is in millionths and the           *)
(* confidence returned, rounded to four decimals, in ten-thousandths.      *)

documentTypes == <<"INVOICE", "RECEIPT", "PURCHASE_ORDER", "CONTRACT", "FORM">>

\* Math.floor(r * n) for a random r.
floorOfProduct(r, n) == (r * n) \div 100000

\* parseFloat(c.toFixed(4)) for c in millionths: to the nearest
\* ten-thousandth.
toFixed4(c) == (c + 50) \div 100

\* Mutation: the type is read from the event, the confidence drawn from
\* 0.5 upwards.
documentClassifierFromEvent(e, r) ==
    LET randomConfidence == 500000 + r.second * 5
        needsReview == randomConfidence < 850000
    IN  Obj([classificationResult |->
                 Obj([documentType |-> get(e, <<"documentType">>),
                      confidence |-> Num(toFixed4(randomConfidence))]),
             needManualReview |-> Bool(needsReview)])

\* DocumentClassifier: a random type and a random confidence.
documentClassifier(e, r) ==
    LET randomType == documentTypes[floorOfProduct(r.first, Len(documentTypes)) + 1]
        randomConfidence == 700000 + r.second * 3
        needsReview == randomConfidence < 850000
    IN  Obj([classificationResult |->
                 Obj([documentType |-> Str(randomType),
                      confidence |-> Num(toFixed4(randomConfidence))]),
             needManualReview |-> Bool(needsReview)])

\* Events of the shape DocumentClassifierEvent.
ClassifierEvents ==
    {Obj([id |-> Str("d1"), s3Key |-> Str("uploads/d1.pdf")]),
     Obj([id |-> Str("d2"), s3Key |-> Str("uploads/d2.pdf")])}

\* What the two calls of Math.random() yield.
Randoms ==
    {[first |-> a, second |-> b] :
        a \in {0, 20000, 59999, 60000, 99999},
        b \in {0, 49980, 49998, 50000, 99999}}

----------------------------------------------------------------------------
(* Units of work: opaque functions from a JSON input to a JSON result or   *)
(* a typed failure.                                                        *)

FailureCategories == {"States.TaskFailed", "States.Timeout"}

DocumentTypes == {Str("INVOICE"), Str("PURCHASE_ORDER"), Null}
Confidences == {Num(50), Num(69), Num(70), Num(94), Null, Str("high")}

\* Classifications that also carry the needManualReview flag of the
\* classifier's documented output.
FlaggedResults ==
    {Obj([documentType |-> Str("INVOICE"), confidence |-> Num(80),
          needManualReview |-> Bool(TRUE)]),
     Obj([documentType |-> Str("INVOICE"), confidence |-> Num(94),
          needManualReview |-> Bool(FALSE)])}

\* The response of the shipped handler as the workflow receives it.  The
\* workflow's confidences are in hundredths: the handler's ten-thousandths
\* are cut to hundredths, which leaves every comparison with 0.7 as it is.
inHundredths(res) ==
    Obj([classificationResult |->
             Obj([documentType |->
                      get(res, <<"classificationResult", "documentType">>),
                  confidence |->
                      Num(get(res, <<"classificationResult", "confidence">>).n
                              \div 100)]),
         needManualReview |-> get(res, <<"needManualReview">>)])

HandlerResults ==
    {inHundredths(documentClassifier(e, r)) :
        e \in ClassifierEvents, r \in Randoms}

ClassifierResults ==
    {Obj([documentType |-> dt, confidence |-> c]) :
        dt \in DocumentTypes, c \in Confidences} \cup FlaggedResults
        \cup {Obj([documentType |-> Str("INVOICE")])}
        \cup HandlerResults

ExtractorResults ==
    {Obj([extractedData |-> Obj([invoiceNumber |-> Str("INV-2025-001")]),
          extractionMethod |-> Str("textract")])}

ProcessorResults == {Obj([status |-> Str("COMPLETED")])}

PublishResults == {Obj([MessageId |-> Str("m1")])}

Results(resource) ==
    CASE resource = "DocumentClassifier" -> ClassifierResults
      [] resource = "DataExtractor" -> ExtractorResults
      [] resource = "BusinessAction" -> ProcessorResults
      [] resource = "sns:publish" -> PublishResults

FailurePayload(category) ==
    Obj([Error |-> Str(category), Cause |-> Str("unit of work failed")])

\* Documents an execution may start from.
Inputs ==
    {Obj([document |-> Obj([id |-> Str("d1")])]),
     Obj([document |-> Obj([id |-> Str("d2"), key |-> Str("s3://bucket/k2")])]),
     Obj([document |-> Obj([id |-> Str("d3"), key |-> Str("s3://bucket/k3")]),
          requestId |-> Str("r1")])}

----------------------------------------------------------------------------
(* Retry, catch and branch rules.                                          *)

RECURSIVE Pow(_, _)
Pow(b, n) == IF n = 0 THEN 1 ELSE b * Pow(b, n - 1)

Least(S) == CHOOSE i \in S : \A j \in S : i <= j

RetryRules(st) == IF "Retry" \in DOMAIN st THEN st.Retry ELSE <<>>
CatchRules(st) == IF "Catch" \in DOMAIN st THEN st.Catch ELSE <<>>

\* Index of the first retry rule naming the category, 0 if none.
matchRetry(st, category) ==
    LET hits == {i \in 1..Len(RetryRules(st)) :
                    category \in RetryRules(st)[i].ErrorEquals}
    IN  IF hits = {} THEN 0 ELSE Least(hits)

\* Index of the first catch rule naming the category or States.ALL, 0 if none.
matchCatch(st, category) ==
    LET hits == {i \in 1..Len(CatchRules(st)) :
                    \/ category \in CatchRules(st)[i].ErrorEquals
                    \/ "States.ALL" \in CatchRules(st)[i].ErrorEquals}
    IN  IF hits = {} THEN 0 ELSE Least(hits)

\* Mutation: a retry rule never runs out of attempts.
attemptsRemainAlways(rule, used) == TRUE

\* MaxAttempts bounds the retries of a rule, the first attempt not counted:
\* with MaxAttempts 3 the schedule is 2s -> 4s -> 8s -> fail.
attemptsRemain(rule, used) == used < rule.MaxAttempts

\* The wait before the retry that follows `used` earlier retries of the rule.
retryDelay(rule, used) == rule.IntervalSeconds * Pow(rule.BackoffRate, used)

\* Mutation: one retry count shared by all the rules of the step.
RECURSIVE total(_)
total(s) == IF s = <<>> THEN 0 ELSE Head(s) + total(Tail(s))

onFailureSharedCount(st, consumed, category) ==
    LET ri == matchRetry(st, category)
        ci == matchCatch(st, category)
    IN  IF ri > 0 /\ attemptsRemain(RetryRules(st)[ri], total(consumed))
        THEN [do |-> "retry", rule |-> ri,
              delay |-> retryDelay(RetryRules(st)[ri], total(consumed))]
        ELSE IF ci > 0 THEN [do |-> "catch", rule |-> ci, delay |-> 0]
        ELSE [do |-> "crash", rule |-> 0, delay |-> 0]

\* What follows a failure of the given category, with the retries consumed
\* so far under each retry rule of the step: a retry under the first rule
\* naming the category while that rule has attempts left, else the first
\* matching catch rule, else a crash.
onFailure(st, consumed, category) ==
    LET ri == matchRetry(st, category)
        ci == matchCatch(st, category)
    IN  IF ri > 0 /\ attemptsRemain(RetryRules(st)[ri], consumed[ri])
        THEN [do |-> "retry", rule |-> ri,
              delay |-> retryDelay(RetryRules(st)[ri], consumed[ri])]
        ELSE IF ci > 0 THEN [do |-> "catch", rule |-> ci, delay |-> 0]
        ELSE [do |-> "crash", rule |-> 0, delay |-> 0]

\* Mutation: an operand that is not a number counts as 0.
conditionMatchesCoercing(cond, d) ==
    LET v == get(d, cond.Variable)
    IN  IF "IsNull" \in DOMAIN cond THEN (v = Null) = cond.IsNull
        ELSE IF "NumericLessThan" \in DOMAIN cond
             THEN (IF v.t = "num" THEN v.n ELSE 0) < cond.NumericLessThan
        ELSE FALSE

conditionMatches(cond, d) ==
    LET v == get(d, cond.Variable)
    IN  IF "IsNull" \in DOMAIN cond THEN (v = Null) = cond.IsNull
        ELSE IF "NumericLessThan" \in DOMAIN cond
             THEN v.t = "num" /\ v.n < cond.NumericLessThan
        ELSE FALSE

\* First-match branch evaluation, else the Default.
chooseNext(st, d) ==
    LET hits == {i \in 1..Len(st.Choices) : conditionMatches(st.Choices[i], d)}
    IN  IF hits = {} THEN st.Default ELSE st.Choices[Least(hits)].Next

----------------------------------------------------------------------------
(* State Machine Runtime and Execution Controller.                         *)

NotInjected == [t |-> "none"]
NoFailure == [category |-> "", cause |-> ""]

freshRetries(name) == [i \in 1..Len(RetryRules(States(name))) |-> 0]

\* An execution about to run its first step on the given input document.
startExecution(input) ==
    /\ current = StartAt
    /\ status = "Running"
    /\ doc = input
    /\ phase = "ready"
    /\ retries = freshRetries(StartAt)
    /\ waited = 0
    /\ elapsed = 0
    /\ calls = <<>>
    /\ history = <<>>
    /\ failure = NoFailure
    /\ cancelRequested = FALSE

\* The harnesses at rest.
injectIdle ==
    /\ pre = Null
    /\ ipath = Root
    /\ ires = Null
    /\ post = NotInjected
    /\ projecting = Null
    /\ projected = NotInjected

validateIdle ==
    /\ graph = Null
    /\ verdict = "pending"
    /\ executing = FALSE

lambdaIdle ==
    /\ handler = ""
    /\ event = Null
    /\ rnd = Null
    /\ now = Null
    /\ response = Null
    /\ requests = <<>>

retryIdle ==
    /\ task = Null
    /\ spent = <<>>
    /\ attempts = <<>>

installIdle ==
    /\ dirs = <<>>
    /\ invokedFrom = ""
    /\ pc = "idle"
    /\ cursor = 0
    /\ cwd = ""
    /\ locations = <<>>
    /\ successCount = 0
    /\ failCount = 0
    /\ exitCode = -1
    /\ installed = <<>>

Init ==
    /\ \E input \in Inputs : startExecution(input)
    /\ injectIdle
    /\ validateIdle
    /\ lambdaIdle
    /\ retryIdle
    /\ installIdle

\* Mutation: an execution that has ended goes on taking steps.
inFlightEver == TRUE

\* Steps are taken only while the execution has not ended.
inFlight == status = "Running"

\* Mutation: the cancellation signal is never looked at.
mayProceedRegardless == TRUE

\* The check made at the top of every step and during a backoff wait.
mayProceed == ~cancelRequested

\* Mutation: the history keeps only the latest record.
logStepRewriting(r) == history' = <<r>>

\* A completed step adds its record at the end of the history.
logStep(r) == history' = Append(history, r)

stepRecord(name, before, after, outcome, next) ==
    [stateName |-> name, inputSnapshot |-> before, outputSnapshot |-> after,
     status |-> outcome, next |-> next]

\* Mutation: the transition lands on any state of the graph.
enterAnywhere(name) ==
    /\ current' \in StateNames
    /\ phase' = "ready"
    /\ retries' = freshRetries(current')
    /\ waited' = 0
    /\ UNCHANGED <<status, failure>>

\* Move to the named state with a fresh retry budget.
enter(name) ==
    /\ current' = name
    /\ phase' = "ready"
    /\ retries' = freshRetries(name)
    /\ waited' = 0
    /\ UNCHANGED <<status, failure>>

\* End the execution in the current state.
terminate(final, why) ==
    /\ status' = final
    /\ failure' = why
    /\ UNCHANGED <<current, phase, retries, waited>>

\* A step that completed normally: take End or the static Next.
advance(st, before, after) ==
    IF "End" \in DOMAIN st /\ st.End
    THEN /\ terminate("Succeeded", NoFailure)
         /\ logStep(stepRecord(current, before, after, "Succeeded", ""))
    ELSE /\ enter(st.Next)
         /\ logStep(stepRecord(current, before, after, "Succeeded", st.Next))

\* One invocation attempt of a Task state and everything that follows from
\* its outcome: result injection and transition, or retry, catch, crash.
InvokeStep ==
    /\ inFlight
    /\ mayProceed
    /\ phase = "ready"
    /\ States(current).Type = "Task"
    /\ LET st == States(current)
           payload == effectiveInput(doc, st)
       IN  \/ \E result \in Results(st.Resource) :
                /\ calls' = Append(calls,
                       [state |-> current, delay |-> waited, input |-> payload,
                        outcome |-> "ok", result |-> result])
                /\ doc' = absorb(doc, st, result)
                /\ advance(st, doc, doc')
                /\ UNCHANGED elapsed
           \/ \E category \in FailureCategories :
                LET todo == onFailure(st, retries, category)
                IN  /\ calls' = Append(calls,
                           [state |-> current, delay |-> waited,
                            input |-> payload, outcome |-> category,
                            result |-> Null])
                    /\ IF todo.do = "retry"
                       THEN /\ phase' = "waiting"
                            /\ waited' = todo.delay
                            /\ retries' = [retries EXCEPT ![todo.rule] = @ + 1]
                            /\ UNCHANGED <<current, status, doc, elapsed,
                                           history, failure>>
                       ELSE IF todo.do = "catch"
                       THEN LET rule == CatchRules(st)[todo.rule]
                            IN  /\ doc' = injectResult(doc, rule.ResultPath,
                                                       FailurePayload(category))
                                /\ enter(rule.Next)
                                /\ logStep(stepRecord(current, doc, doc', "Caught",
                                                  rule.Next))
                                /\ UNCHANGED elapsed
                       ELSE /\ terminate("Crashed",
                                   [category |-> category,
                                    cause |-> "unit of work failed"])
                            /\ logStep(stepRecord(current, doc, doc, "Crashed", ""))
                            /\ UNCHANGED <<doc, elapsed>>
    /\ UNCHANGED <<cancelRequested, harnessVars>>

\* The backoff wait before a retry runs to its end.
BackoffElapsed ==
    /\ inFlight
    /\ mayProceed
    /\ phase = "waiting"
    /\ elapsed' = elapsed + waited
    /\ phase' = "ready"
    /\ UNCHANGED <<current, status, doc, retries, waited, calls, history,
                   failure, cancelRequested, harnessVars>>

\* A Pass state: no unit of work, the projected input is the result.
PassStep ==
    /\ inFlight
    /\ mayProceed
    /\ phase = "ready"
    /\ States(current).Type = "Pass"
    /\ LET st == States(current)
       IN  /\ doc' = absorb(doc, st, effectiveInput(doc, st))
           /\ advance(st, doc, doc')
    /\ UNCHANGED <<elapsed, calls, cancelRequested, harnessVars>>

\* A Choice state: first matching condition, else the Default.
ChoiceStep ==
    /\ inFlight
    /\ mayProceed
    /\ phase = "ready"
    /\ States(current).Type = "Choice"
    /\ LET next == chooseNext(States(current), doc)
       IN  /\ enter(next)
           /\ logStep(stepRecord(current, doc, doc, "Succeeded", next))
    /\ UNCHANGED <<doc, elapsed, calls, cancelRequested, harnessVars>>

\* A Fail state ends the execution with its Error and Cause.
FailStep ==
    /\ inFlight
    /\ mayProceed
    /\ phase = "ready"
    /\ States(current).Type = "Fail"
    /\ terminate("Failed", [category |-> States(current).Error,
                            cause |-> States(current).Cause])
    /\ logStep(stepRecord(current, doc, doc, "Failed", ""))
    /\ UNCHANGED <<doc, elapsed, calls, cancelRequested, harnessVars>>

\* The caller sets the cancellation signal of a running execution.
RequestCancel ==
    /\ inFlight
    /\ ~cancelRequested
    /\ cancelRequested' = TRUE
    /\ UNCHANGED <<current, status, doc, phase, retries, waited, elapsed,
                   calls, history, failure, harnessVars>>

\* The signal is seen at the top of the step loop, or interrupts the
\* backoff wait in progress: the execution ends cancelled.
Cancel ==
    /\ inFlight
    /\ cancelRequested
    /\ status' = "Cancelled"
    /\ UNCHANGED <<current, doc, phase, retries, waited, elapsed, calls,
                   history, failure, cancelRequested, harnessVars>>

Next ==
    \/ InvokeStep
    \/ BackoffElapsed
    \/ PassStep
    \/ ChoiceStep
    \/ FailStep
    \/ RequestCancel
    \/ Cancel

Spec == Init /\ [][Next]_vars

\* The step loop keeps running, so a set signal is eventually seen.
SpecFair == Spec /\ WF_vars(Cancel)

\* The engine does not stop by itself: a step that can be taken is taken.
Step ==
    \/ InvokeStep
    \/ BackoffElapsed
    \/ PassStep
    \/ ChoiceStep
    \/ FailStep
    \/ Cancel

SpecLive == Spec /\ WF_vars(Step)

----------------------------------------------------------------------------
(* Path resolver harness: injectResult applied to drawn inputs.            *)

\* The document as it is when ProcessExtractedData runs.
extractedDoc(dt) ==
    Obj([document |-> Obj([id |-> Str("d1")]),
         classificationResult |-> Obj([documentType |-> dt,
                                       confidence |-> Num(94)]),
         extractionInput |-> Obj([document |-> Obj([id |-> Str("d1")]),
                                  documentType |-> dt,
                                  confidence |-> Num(94)]),
         extractionResult |->
             Obj([extractedData |-> Obj([invoiceNumber |-> Str("INV-2025-001")])])])

HarnessDocs ==
    Inputs \cup
    {Obj([document |-> Obj([id |-> Str("d1")]),
          classificationResult |-> Obj([documentType |-> Str("INVOICE"),
                                        confidence |-> Num(94)])]),
     Obj(NoFields),
     extractedDoc(Str("INVOICE")), extractedDoc(Str("PURCHASE_ORDER"))}

\* The steps that declare Parameters, as they are and with an InputPath.
HarnessSteps ==
    LET declaring == {ProcessExtractedData, TransformForExtraction, ManualReview}
    IN  declaring \cup
        {[k \in DOMAIN st \cup {"InputPath"} |->
             IF k = "InputPath" THEN p ELSE st[k]] :
            st \in declaring, p \in {<<"extractionInput">>, <<"document">>}}

HarnessPaths == {Root, <<"classificationResult">>, <<"error">>, <<"document">>,
                 <<"extractionInput", "document">>}

HarnessResults ==
    ClassifierResults \cup ExtractorResults
        \cup {FailurePayload(c) : c \in FailureCategories} \cup {Null}

InitInject ==
    /\ startExecution(Obj(NoFields))
    /\ validateIdle
    /\ lambdaIdle
    /\ retryIdle
    /\ installIdle
    /\ pre \in HarnessDocs
    /\ ipath \in HarnessPaths
    /\ ires \in HarnessResults
    /\ post = NotInjected
    /\ projecting \in HarnessSteps
    /\ projected = NotInjected

Inject ==
    /\ post = NotInjected
    /\ post' = injectResult(pre, ipath, ires)
    /\ UNCHANGED <<pre, ipath, ires, projecting, projected, runVars,
                   validateVars, lambdaVars, retryVars, installVars>>

\* The input of the step is computed from the document.
Project ==
    /\ projected = NotInjected
    /\ projected' = effectiveInput(pre, projecting)
    /\ UNCHANGED <<pre, ipath, ires, post, projecting, runVars,
                   validateVars, lambdaVars, retryVars, installVars>>

NextInject ==
    \/ Inject
    \/ Project

SpecInject == InitInject /\ [][NextInject]_vars

----------------------------------------------------------------------------
(* Graph validation: a graph is accepted or rejected before any execution  *)
(* of it starts.                                                           *)

\* The workflow as one graph value.
Workflow == [StartAt |-> StartAt, States |-> [n \in StateNames |-> States(n)]]

\* The state names a state definition refers to.
references(st) ==
    (IF "Next" \in DOMAIN st THEN {st.Next} ELSE {})
        \cup (IF "Default" \in DOMAIN st THEN {st.Default} ELSE {})
        \cup (IF "Choices" \in DOMAIN st
              THEN {st.Choices[i].Next : i \in 1..Len(st.Choices)} ELSE {})
        \cup {CatchRules(st)[i].Next : i \in 1..Len(CatchRules(st))}

\* A retry rule of the state names the wildcard category.
wildcardInRetry(st) ==
    \E i \in 1..Len(RetryRules(st)) : "States.ALL" \in RetryRules(st)[i].ErrorEquals

\* Mutation: the categories of the retry rules are not looked at.
validateGraphReferencesOnly(g) ==
    /\ g.StartAt \in DOMAIN g.States
    /\ \A n \in DOMAIN g.States : references(g.States[n]) \subseteq DOMAIN g.States

validateGraph(g) ==
    /\ g.StartAt \in DOMAIN g.States
    /\ \A n \in DOMAIN g.States : references(g.States[n]) \subseteq DOMAIN g.States
    /\ \A n \in DOMAIN g.States : ~wildcardInRetry(g.States[n])

\* The places of a graph that hold a state name.
slotsOf(n, st) ==
    (IF "Next" \in DOMAIN st
     THEN {[state |-> n, kind |-> "Next", index |-> 0]} ELSE {})
        \cup (IF "Default" \in DOMAIN st
              THEN {[state |-> n, kind |-> "Default", index |-> 0]} ELSE {})
        \cup (IF "Choices" \in DOMAIN st
              THEN {[state |-> n, kind |-> "Choice", index |-> i] :
                        i \in 1..Len(st.Choices)} ELSE {})
        \cup {[state |-> n, kind |-> "Catch", index |-> i] :
                  i \in 1..Len(CatchRules(st))}

slots(g) == UNION {slotsOf(n, g.States[n]) : n \in DOMAIN g.States}

\* A state definition with the chosen places pointing at another name.
retargetState(n, st, chosen, to) ==
    LET hit(kind, i) == [state |-> n, kind |-> kind, index |-> i] \in chosen
        s1 == IF hit("Next", 0) THEN [st EXCEPT !.Next = to] ELSE st
        s2 == IF hit("Default", 0) THEN [s1 EXCEPT !.Default = to] ELSE s1
        s3 == IF "Choices" \in DOMAIN s2
              THEN [s2 EXCEPT !.Choices =
                       [i \in 1..Len(s2.Choices) |->
                           IF hit("Choice", i)
                           THEN [s2.Choices[i] EXCEPT !.Next = to]
                           ELSE s2.Choices[i]]]
              ELSE s2
    IN  IF "Catch" \in DOMAIN s3
        THEN [s3 EXCEPT !.Catch =
                 [i \in 1..Len(s3.Catch) |->
                     IF hit("Catch", i)
                     THEN [s3.Catch[i] EXCEPT !.Next = to]
                     ELSE s3.Catch[i]]]
        ELSE s3

retarget(g, chosen, to) ==
    [g EXCEPT !.States =
        [n \in DOMAIN g.States |-> retargetState(n, g.States[n], chosen, to)]]

\* Graphs handed to the validator: the workflow, and the workflow with any
\* of its references or its start name misspelt.
Misspelt == "checkClassification"

\* The categories given to the retry rule of ClassifyDocument.
RetryCategories ==
    {{"States.TaskFailed"}, {"States.ALL"}, {"States.TaskFailed", "States.ALL"}}

withRetryOn(g, categories) ==
    [g EXCEPT !.States["ClassifyDocument"].Retry[1].ErrorEquals = categories]

Graphs ==
    {withRetryOn([retarget(Workflow, chosen, Misspelt) EXCEPT !.StartAt = start],
                 categories) :
        chosen \in SUBSET slots(Workflow), start \in {StartAt, Misspelt},
        categories \in RetryCategories}

InitValidate ==
    /\ startExecution(Obj(NoFields))
    /\ injectIdle
    /\ lambdaIdle
    /\ retryIdle
    /\ installIdle
    /\ graph \in Graphs
    /\ verdict = "pending"
    /\ executing = FALSE

Validate ==
    /\ verdict = "pending"
    /\ verdict' = IF validateGraph(graph) THEN "accepted" ELSE "rejected"
    /\ UNCHANGED <<graph, executing, runVars, injectVars, lambdaVars,
                   retryVars, installVars>>

\* Executions are started on accepted graphs only.
StartExecution ==
    /\ verdict = "accepted"
    /\ ~executing
    /\ executing' = TRUE
    /\ UNCHANGED <<graph, verdict, runVars, injectVars, lambdaVars,
                   retryVars, installVars>>

NextValidate ==
    \/ Validate
    \/ StartExecution

SpecValidate == InitValidate /\ [][NextValidate]_vars

----------------------------------------------------------------------------
(* The Lambda handlers, each applied to a drawn event.  Math.random() is a *)
(* drawn value in units of 0.00001; the classifier's raw confidence is in  *)
(* millionths and the confidence it returns, rounded to four decimals, in  *)
(* ten-thousandths, as is every confidence here; amounts and prices are in *)
(* hundredths, counts are plain integers.                                  *)

\* Mutation: every document type gets the generic fields.
extractedFieldsGeneric(e, t) ==
    Obj([documentId |-> get(e, <<"s3Key">>),
         extractionDate |-> t,
         status |-> Str("extracted")])

\* DataExtractor: the switch on the document type.
extractedFields(e, t) ==
    LET documentType == get(e, <<"documentType">>)
    IN  CASE documentType = Str("INVOICE") ->
                Obj([invoiceNumber |-> Str("INV-2025-001234"),
                     invoiceDate |-> Str("2025-10-30"),
                     dueDate |-> Str("2025-11-30"),
                     vendorName |-> Str("Acme Corp"),
                     totalAmount |-> Num(1500050),
                     currency |-> Str("USD"),
                     lineItems |->
                         Arr(<<Obj([description |-> Str("Product A"),
                                    quantity |-> Num(10),
                                    unitPrice |-> Num(100000),
                                    amount |-> Num(1000000)]),
                               Obj([description |-> Str("Product B"),
                                    quantity |-> Num(5),
                                    unitPrice |-> Num(100010),
                                    amount |-> Num(500050)])>>)])
          [] documentType = Str("RECEIPT") ->
                Obj([receiptNumber |-> Str("RCP-2025-567890"),
                     date |-> Str("2025-10-30"),
                     merchantName |-> Str("Tech Store Inc"),
                     totalAmount |-> Num(249999),
                     currency |-> Str("USD"),
                     paymentMethod |-> Str("Credit Card")])
          [] documentType = Str("PURCHASE_ORDER") ->
                Obj([poNumber |-> Str("PO-2025-789012"),
                     orderDate |-> Str("2025-10-30"),
                     deliveryDate |-> Str("2025-11-15"),
                     supplier |-> Str("Global Supplies Ltd"),
                     totalAmount |-> Num(5000000),
                     currency |-> Str("USD")])
          [] documentType = Str("CONTRACT") ->
                Obj([contractNumber |-> Str("CNT-2025-345678"),
                     effectiveDate |-> Str("2025-11-01"),
                     expirationDate |-> Str("2026-10-31"),
                     parties |-> Arr(<<Str("Company A"), Str("Company B")>>),
                     contractValue |-> Num(100000000),
                     currency |-> Str("USD")])
          [] OTHER ->
                Obj([documentId |-> get(e, <<"s3Key">>),
                     extractionDate |-> t,
                     status |-> Str("extracted")])

dataExtractor(e, t) ==
    Obj([extractedData |->
             Obj([documentType |-> get(e, <<"documentType">>),
                  fields |-> extractedFields(e, t),
                  metadata |-> Obj([extractionMethod |-> Str("AWS Textract"),
                                    confidence |-> Num(9500),
                                    timestamp |-> t])])])

\* Mutation: every document type gets the generic action.
processorActionGeneric(documentType) ==
    [action |-> "GENERIC_PROCESSING",
     result |-> "Document archived for manual review",
     recordsProcessed |-> 1]

\* Processor: the switch on the document type.
processorAction(documentType) ==
    CASE documentType = Str("INVOICE") ->
            [action |-> "PAYMENT_PROCESSING",
             result |-> "Invoice scheduled for payment",
             recordsProcessed |-> 1]
      [] documentType = Str("RECEIPT") ->
            [action |-> "EXPENSE_RECORDING",
             result |-> "Receipt recorded in expense management system",
             recordsProcessed |-> 1]
      [] documentType = Str("PURCHASE_ORDER") ->
            [action |-> "ORDER_FULFILLMENT",
             result |-> "Purchase order sent to fulfillment system",
             recordsProcessed |-> 1]
      [] documentType = Str("CONTRACT") ->
            [action |-> "CONTRACT_MANAGEMENT",
             result |-> "Contract archived and parties notified",
             recordsProcessed |-> 1]
      [] OTHER ->
            [action |-> "GENERIC_PROCESSING",
             result |-> "Document archived for manual review",
             recordsProcessed |-> 1]

processor(e, t) ==
    LET taken == processorAction(get(e, <<"extractedData", "documentType">>))
    IN  Obj([status |-> Str("COMPLETED"),
             processingDetails |->
                 Obj([action |-> Str(taken.action),
                      result |-> Str(taken.result),
                      timestamp |-> t,
                      recordsProcessed |-> Num(taken.recordsProcessed)])])

\* ProcessorLambda/src/main.ts: logs, then answers 200; the event is not
\* looked at and nothing is sent anywhere.
businessAction(e) ==
    [response |-> Obj([statusCode |-> Num(200),
                       body |-> Str("{\"message\":\"Business Action executed\"}")]),
     requests |-> <<>>]

\* Events of the shape ProcessorEvent, with known and unknown types.
ProcessorEvents ==
    {Obj([extractedData |->
              Obj([documentType |-> Str(dt),
                   fields |-> fields,
                   metadata |-> Obj([extractionMethod |-> Str("AWS Textract"),
                                     confidence |-> Num(9500),
                                     timestamp |-> Str("2025-01-15T10:29:59.000Z")])])]) :
        dt \in {"INVOICE", "RECEIPT", "PURCHASE_ORDER", "CONTRACT", "FORM",
                "invoice", ""},
        fields \in {Obj(NoFields),
                    Obj([invoiceNumber |-> Str("INV-2025-001234")])}}

\* What ProcessExtractedData sends: the two values of actionType.
BusinessActionEvents ==
    {Obj([actionType |-> Str(a),
          extractedData |-> Obj([invoiceNumber |-> Str("INV-2025-001234")]),
          documentId |-> Str(id)]) :
        a \in {"processPayment", "createOrder"}, id \in {"d1", "d2"}}

\* Events of the shape DataExtractorEvent, and what ExtractDocumentData
\* sends, which has a documentType but no s3Key.
ExtractorEvents ==
    {Obj([config |-> Obj([ocrEngine |-> Str("textract")]),
          documentType |-> Str(dt),
          s3Key |-> Str(key)]) :
        dt \in {"INVOICE", "RECEIPT", "PURCHASE_ORDER", "CONTRACT", "FORM",
                "invoice"},
        key \in {"uploads/d1.pdf", "uploads/d2.pdf"}}
    \cup {Obj([document |-> Obj([id |-> Str("d1")]),
               documentType |-> Str(dt),
               confidence |-> Num(9400)]) : dt \in {"INVOICE", "FORM"}}

Events ==
    ClassifierEvents \cup ExtractorEvents \cup ProcessorEvents
        \cup BusinessActionEvents

Clock == {Str("2025-01-15T10:30:00.000Z"), Str("2025-01-15T10:30:01.000Z")}

InitLambda ==
    /\ startExecution(Obj(NoFields))
    /\ injectIdle
    /\ validateIdle
    /\ retryIdle
    /\ installIdle
    /\ handler = ""
    /\ event \in Events
    /\ rnd \in Randoms
    /\ now \in Clock
    /\ response = Null
    /\ requests = <<>>

\* One invocation of a handler: its response and the requests it made.
invoke(name, result, sent) ==
    /\ handler = ""
    /\ handler' = name
    /\ response' = result
    /\ requests' = requests \o sent
    /\ UNCHANGED <<event, rnd, now, runVars, injectVars, validateVars,
                   retryVars, installVars>>

DocumentClassifier ==
    /\ event \in ClassifierEvents
    /\ invoke("DocumentClassifier", documentClassifier(event, rnd), <<>>)

Processor ==
    /\ event \in ProcessorEvents
    /\ invoke("Processor", processor(event, now), <<>>)

BusinessAction ==
    /\ event \in BusinessActionEvents
    /\ invoke("BusinessAction", businessAction(event).response,
              businessAction(event).requests)

DataExtractor ==
    /\ event \in ExtractorEvents
    /\ invoke("DataExtractor", dataExtractor(event, now), <<>>)

NextLambda ==
    \/ DocumentClassifier
    \/ DataExtractor
    \/ Processor
    \/ BusinessAction

SpecLambda == InitLambda /\ [][NextLambda]_vars

----------------------------------------------------------------------------
(* Retry harness: a step with several retry rules fails again and again.   *)

FirstRuleAttempts == {1, 2}
SecondRuleAttempts == {1, 2}

\* Steps with two retry rules, apart or overlapping, and a catch rule or none.
RetryTasks ==
    {[Type |-> "Task", Resource |-> "DocumentClassifier",
      Retry |-> << [ErrorEquals |-> first, IntervalSeconds |-> 2,
                    MaxAttempts |-> a, BackoffRate |-> 2],
                   [ErrorEquals |-> second, IntervalSeconds |-> 3,
                    MaxAttempts |-> b, BackoffRate |-> 1] >>,
      Catch |-> catch] :
        first \in {{"States.TaskFailed"}, {"States.Timeout"},
                   {"States.TaskFailed", "States.Timeout"}},
        second \in {{"States.TaskFailed"}, {"States.Timeout"}},
        a \in FirstRuleAttempts, b \in SecondRuleAttempts,
        catch \in {<<>>, ClassifyDocument.Catch}}

InitRetry ==
    /\ startExecution(Obj(NoFields))
    /\ injectIdle
    /\ validateIdle
    /\ lambdaIdle
    /\ installIdle
    /\ task \in RetryTasks
    /\ spent = [i \in 1..Len(RetryRules(task)) |-> 0]
    /\ attempts = <<>>

\* One more attempt of the step fails, unless the last failure ended it.
FailedAttempt ==
    /\ IF attempts = <<>> THEN TRUE ELSE attempts[Len(attempts)].do = "retry"
    /\ \E category \in FailureCategories :
          LET todo == onFailure(task, spent, category)
          IN  /\ attempts' = Append(attempts,
                     [category |-> category, do |-> todo.do,
                      rule |-> todo.rule, delay |-> todo.delay])
              /\ spent' = IF todo.do = "retry"
                          THEN [spent EXCEPT ![todo.rule] = @ + 1]
                          ELSE spent
    /\ UNCHANGED <<task, runVars, injectVars, validateVars, lambdaVars,
                   installVars>>

NextRetry == FailedAttempt

SpecRetry == InitRetry /\ [][NextRetry]_vars

----------------------------------------------------------------------------
(* install.ps1: npm install in every folder directly under the workspace   *)
(* root that holds a package.json.                                         *)

MaxFolders == 3
FolderNames ==
    <<"DocumentClassifierLambda", "DataExtractorLambda", "ProcessorLambda",
      "BusinessActionLambda", "docs">>

\* The folders under the workspace root, with or without a package.json.
Workspaces ==
    UNION {{[i \in 1..n |-> [Name |-> FolderNames[i], hasPackageJson |-> has[i]]] :
               has \in [1..n -> BOOLEAN]} : n \in 0..MaxFolders}

\* Get-ChildItem -Directory | Where-Object { Test-Path package.json }
lambdaFolders == SelectSeq(dirs, LAMBDA d : d.hasPackageJson)

\* npm install ends with an exit code, or cannot be run and throws.
NpmOutcomes ==
    {[kind |-> "exit", code |-> 0], [kind |-> "exit", code |-> 1],
     [kind |-> "throw", code |-> 0]}

\* Mutation: an error thrown by npm install is counted nowhere.
countedThrowIgnored(o) ==
    IF o.kind = "throw" THEN "none"
    ELSE IF o.code = 0 THEN "success" ELSE "failure"

\* The try block counts by $LASTEXITCODE, the catch block counts a failure.
counted(o) ==
    IF o.kind = "throw" THEN "failure"
    ELSE IF o.code = 0 THEN "success" ELSE "failure"

InitInstall ==
    /\ startExecution(Obj(NoFields))
    /\ injectIdle
    /\ validateIdle
    /\ lambdaIdle
    /\ retryIdle
    /\ dirs \in Workspaces
    /\ invokedFrom \in {"workspaceRoot", "elsewhere"}
    /\ pc = "start"
    /\ cursor = 0
    /\ cwd = invokedFrom
    /\ locations = <<>>
    /\ successCount = 0
    /\ failCount = 0
    /\ exitCode = -1
    /\ installed = <<>>

\* The folders are listed; with none the script exits 0 at once.
FindFolders ==
    /\ pc = "start"
    /\ IF Len(lambdaFolders) = 0
       THEN /\ exitCode' = 0
            /\ pc' = "done"
            /\ UNCHANGED cursor
       ELSE /\ cursor' = 1
            /\ pc' = "loop"
            /\ UNCHANGED exitCode
    /\ successCount' = 0
    /\ failCount' = 0
    /\ UNCHANGED <<dirs, invokedFrom, cwd, locations, installed, runVars,
                   injectVars, validateVars, lambdaVars, retryVars>>

\* Push-Location $folder.FullName
PushLocation ==
    /\ pc = "loop"
    /\ locations' = <<cwd>> \o locations
    /\ cwd' = lambdaFolders[cursor].Name
    /\ pc' = "inFolder"
    /\ UNCHANGED <<dirs, invokedFrom, cursor, successCount, failCount,
                   exitCode, installed, runVars, injectVars, validateVars,
                   lambdaVars, retryVars>>

\* try { npm install; count } catch { count } finally { Pop-Location }, and
\* on to the next folder or to the summary.
NpmInstall ==
    /\ pc = "inFolder"
    /\ \E o \in NpmOutcomes :
          /\ installed' = Append(installed,
                 [folder |-> lambdaFolders[cursor].Name, at |-> cwd,
                  outcome |-> o, tally |-> counted(o)])
          /\ successCount' = successCount + (IF counted(o) = "success" THEN 1 ELSE 0)
          /\ failCount' = failCount + (IF counted(o) = "failure" THEN 1 ELSE 0)
    /\ cwd' = Head(locations)
    /\ locations' = Tail(locations)
    /\ cursor' = cursor + 1
    /\ pc' = IF cursor = Len(lambdaFolders) THEN "summary" ELSE "loop"
    /\ UNCHANGED <<dirs, invokedFrom, exitCode, runVars, injectVars,
                   validateVars, lambdaVars, retryVars>>

\* The summary and the exit code.
Summary ==
    /\ pc = "summary"
    /\ exitCode' = IF failCount > 0 THEN 1 ELSE 0
    /\ pc' = "done"
    /\ UNCHANGED <<dirs, invokedFrom, cursor, cwd, locations, successCount,
                   failCount, installed, runVars, injectVars, validateVars,
                   lambdaVars, retryVars>>

NextInstall ==
    \/ FindFolders
    \/ PushLocation
    \/ NpmInstall
    \/ Summary

SpecInstall == InitInstall /\ [][NextInstall]_vars

----------------------------------------------------------------------------
(* Properties.                                                             *)

callsAt(name) == SelectSeq(calls, LAMBDA c : c.state = name)
names(h) == [i \in 1..Len(h) |-> h[i].stateName]
Entered == {history[i].stateName : i \in 1..Len(history)} \cup {current}
IsPrefix(a, b) == Len(a) <= Len(b) /\ \A i \in 1..Len(a) : a[i] = b[i]

allTaskFailed(cc) == \A i \in 1..Len(cc) : cc[i].outcome = "States.TaskFailed"

classification(d) == get(d, <<"classificationResult">>)
typeOf(d) == get(d, <<"classificationResult", "documentType">>)
confidenceOf(d) == get(d, <<"classificationResult", "confidence">>)

\* C1: while every call of ClassifyDocument fails with States.TaskFailed, the
\* delay before attempt 1 is 0 and before attempt k >= 2 it is 2 * 2^(k-2)
\* (0, 2, 4 before attempts 1, 2, 3); the 4th failure is not retried: the
\* step is caught and no 5th attempt is made.
C1_RetryDelays ==
    LET cc == callsAt("ClassifyDocument")
    IN  allTaskFailed(cc) =>
          /\ Len(cc) <= 4
          /\ \A k \in 1..Len(cc) :
                cc[k].delay = IF k = 1 THEN 0
                              ELSE IF k = 2 THEN 2
                              ELSE IF k = 3 THEN 4
                              ELSE 2 * Pow(2, k - 2)
          /\ Len(cc) = 4 =>
                /\ phase = "ready"
                /\ Len(history) >= 1
                /\ history[1].stateName = "ClassifyDocument"
                /\ history[1].status = "Caught"
                /\ "error" \in Fields(history[1].outputSnapshot)

C1_Witness ==
    LET cc == callsAt("ClassifyDocument")
    IN  /\ Len(cc) = 4
        /\ allTaskFailed(cc)
        /\ current = "ClassificationFailed"

\* C2: two States.TaskFailed failures followed by a success make a
\* successful ClassifyDocument step: exactly 3 attempts, 2 + 4 = 6 units of
\* backoff, the result injected at classificationResult, the static Next
\* taken and no catch rule applied.
C2_FailTwiceThenSucceed ==
    LET cc == callsAt("ClassifyDocument")
    IN  (/\ Len(cc) >= 3
         /\ cc[1].outcome = "States.TaskFailed"
         /\ cc[2].outcome = "States.TaskFailed"
         /\ cc[3].outcome = "ok") =>
          /\ Len(cc) = 3
          /\ cc[1].delay + cc[2].delay + cc[3].delay = 6
          /\ elapsed = 6
          /\ history[1].stateName = "ClassifyDocument"
          /\ history[1].status = "Succeeded"
          /\ history[1].next = "CheckClassification"
          /\ classification(history[1].outputSnapshot) = cc[3].result
          /\ "error" \notin Fields(history[1].outputSnapshot)
          /\ "error" \notin Fields(doc)

C2_Witness ==
    LET cc == callsAt("ClassifyDocument")
    IN  /\ Len(cc) = 3
        /\ cc[1].outcome = "States.TaskFailed"
        /\ cc[2].outcome = "States.TaskFailed"
        /\ cc[3].outcome = "ok"
        /\ elapsed = 6
        /\ current = "CheckClassification"

\* C3: a classifier that keeps failing with States.TaskFailed is retried
\* after waits of 2, then 4, then 8, and the step fails only after that.
C3_BackoffSchedule ==
    LET cc == callsAt("ClassifyDocument")
    IN  allTaskFailed(cc) =>
          /\ (Len(history) >= 1) =>
                /\ Len(cc) = 4
                /\ <<cc[2].delay, cc[3].delay, cc[4].delay>> = <<2, 4, 8>>
                /\ elapsed = 14
          /\ (cc # <<>> /\ Len(cc) <= 3) =>
                /\ history = <<>>
                /\ status \in {"Running", "Cancelled"}
                /\ current = "ClassifyDocument"

C3_Witness ==
    /\ Len(history) >= 1
    /\ history[1].status = "Caught"
    /\ allTaskFailed(callsAt("ClassifyDocument"))
    /\ elapsed = 14

\* C4: every Choice step goes to the Next of the earliest condition that
\* matches and to the Default when none does; CheckClassification sends a
\* null documentType to ClassificationFailed even when the confidence is
\* below 0.7.
C4_FirstMatch ==
    \A n \in 1..Len(history) :
        LET h == history[n]
            st == States(h.stateName)
            d == h.inputSnapshot
        IN  st.Type = "Choice" =>
              /\ \/ \E i \in 1..Len(st.Choices) :
                        /\ conditionMatches(st.Choices[i], d)
                        /\ \A j \in 1..(i - 1) :
                              ~conditionMatches(st.Choices[j], d)
                        /\ h.next = st.Choices[i].Next
                 \/ /\ \A i \in 1..Len(st.Choices) :
                          ~conditionMatches(st.Choices[i], d)
                    /\ h.next = st.Default
              /\ h.stateName = "CheckClassification" =>
                    h.next = IF typeOf(d) = Null THEN "ClassificationFailed"
                             ELSE IF confidenceOf(d).t = "num"
                                     /\ confidenceOf(d).n < 70
                                  THEN "ManualReview"
                             ELSE "TransformForExtraction"

C4_Witness ==
    /\ Len(history) >= 2
    /\ history[2].stateName = "CheckClassification"
    /\ typeOf(history[2].inputSnapshot) = Null
    /\ confidenceOf(history[2].inputSnapshot) = Num(50)
    /\ history[2].next = "ClassificationFailed"

\* The step being taken injects at the root wildcard.
injectsAtRoot ==
    LET st == States(current)
        done == Len(history') > Len(history)
        last == history'[Len(history')]
    IN  /\ done
        /\ \/ /\ last.status = "Succeeded"
              /\ "ResultPath" \in DOMAIN st
              /\ st.ResultPath = Root
           \/ /\ last.status = "Caught"
              /\ \E i \in 1..Len(CatchRules(st)) :
                    CatchRules(st)[i].ResultPath = Root

\* C5: a step whose result path is not the root wildcard loses no field:
\* the fields of the document before it are among the fields after it.
C5_NoFieldLoss ==
    [][~injectsAtRoot => Fields(doc) \subseteq Fields(doc')]_vars

C5_Witness ==
    /\ Len(history) >= 1
    /\ history[1].status = "Succeeded"
    /\ "requestId" \in Fields(history[1].inputSnapshot)
    /\ "classificationResult" \notin Fields(history[1].inputSnapshot)
    /\ {"requestId", "document", "classificationResult"} \subseteq Fields(doc)

\* C6: injection at the root wildcard gives back the result itself, and
\* every prior field the result does not have is gone.
C6_RootReplaces ==
    (post # NotInjected /\ ipath = Root) =>
        /\ post = ires
        /\ \A f \in Fields(pre) \ Fields(ires) : f \notin Fields(post)

C6_Witness ==
    /\ post # NotInjected
    /\ ipath = Root
    /\ "document" \in Fields(pre)
    /\ "document" \notin Fields(ires)
    /\ "document" \notin Fields(post)

\* C7: a caught failure keeps every field the document had before the
\* failing step with its value, adds the failure payload at the catch
\* rule's result path and moves to the rule's next state; for
\* ClassifyDocument that is `error` and ClassificationFailed.
C7_CatchPreserves ==
    \A n \in 1..Len(history) :
        LET h == history[n]
            before == h.inputSnapshot
            after == h.outputSnapshot
            cc == callsAt(h.stateName)
        IN  h.status = "Caught" =>
              /\ \A f \in Fields(before) :
                    f \in Fields(after) /\ after.f[f] = before.f[f]
              /\ \E i \in 1..Len(CatchRules(States(h.stateName))) :
                    LET rule == CatchRules(States(h.stateName))[i]
                    IN  /\ get(after, rule.ResultPath)
                              = FailurePayload(cc[Len(cc)].outcome)
                        /\ h.next = rule.Next
              /\ IF n < Len(history) THEN history[n + 1].stateName = h.next
                 ELSE current = h.next
              /\ h.stateName = "ClassifyDocument" =>
                    /\ after.f["document"] = before.f["document"]
                    /\ Fields(after) = Fields(before) \cup {"error"}
                    /\ h.next = "ClassificationFailed"

C7_Witness ==
    /\ Len(history) >= 1
    /\ history[1].status = "Caught"
    /\ callsAt("ClassifyDocument")[1].outcome = "States.Timeout"
    /\ {"requestId", "document", "error"} \subseteq Fields(doc)
    /\ current = "ClassificationFailed"

HappyPath ==
    <<"ClassifyDocument", "CheckClassification", "TransformForExtraction",
      "ExtractDocumentData", "ProcessExtractedData">>

classifiedAs(dt, c) ==
    /\ Len(history) >= 1
    /\ history[1].stateName = "ClassifyDocument"
    /\ history[1].status = "Succeeded"
    /\ classification(history[1].outputSnapshot)
          = Obj([documentType |-> dt, confidence |-> c])

\* C8: from {document: {id: 'd1'}} with the classifier returning
\* {documentType: 'INVOICE', confidence: 0.94}, the steps run in the order
\* ClassifyDocument, CheckClassification (default branch),
\* TransformForExtraction, ExtractDocumentData, ProcessExtractedData, and
\* the actionType sent to the processor is 'processPayment'; for every
\* other documentType that reaches the processor it is 'createOrder'.
C8_EndToEnd ==
    /\ (/\ classifiedAs(Str("INVOICE"), Num(94))
        /\ history[1].inputSnapshot = Obj([document |-> Obj([id |-> Str("d1")])])) =>
          /\ IsPrefix(names(history), HappyPath)
          /\ Len(history) >= 2 => history[2].next = CheckClassification.Default
          /\ status = "Succeeded" => names(history) = HappyPath
          /\ status \in {"Running", "Succeeded", "Crashed", "Cancelled"}
    /\ \A i \in 1..Len(calls) :
          calls[i].state = "ProcessExtractedData" =>
              get(calls[i].input, <<"actionType">>) =
                  IF typeOf(doc) = Str("INVOICE") THEN Str("processPayment")
                  ELSE Str("createOrder")

C8_Witness ==
    /\ classifiedAs(Str("INVOICE"), Num(94))
    /\ history[1].inputSnapshot = Obj([document |-> Obj([id |-> Str("d1")])])
    /\ status = "Succeeded"
    /\ names(history) = HappyPath
    /\ calls[Len(calls)].state = "ProcessExtractedData"
    /\ get(calls[Len(calls)].input, <<"actionType">>) = Str("processPayment")

C10_QualityGate ==
    \A i \in 1..Len(calls) :
        calls[i].state \in {"ExtractDocumentData", "ProcessExtractedData"} =>
            /\ typeOf(doc) # Null
            /\ confidenceOf(doc).t = "num"
            /\ confidenceOf(doc).n >= 70

namesIn(g) == DOMAIN g.States

\* Some reference of the kinds a state can hold names no state of g.
dangling(g) ==
    \E n \in namesIn(g) :
        LET st == g.States[n]
        IN  \/ "Next" \in DOMAIN st /\ st.Next \notin namesIn(g)
            \/ "Default" \in DOMAIN st /\ st.Default \notin namesIn(g)
            \/ /\ "Choices" \in DOMAIN st
               /\ \E i \in 1..Len(st.Choices) : st.Choices[i].Next \notin namesIn(g)
            \/ /\ "Catch" \in DOMAIN st
               /\ \E i \in 1..Len(st.Catch) : st.Catch[i].Next \notin namesIn(g)

\* C11: a graph in which a Next, a Choice's Next or Default, or a Catch's
\* Next names no existing state is rejected and no execution of it ever
\* starts; the workflow itself (StartAt ClassifyDocument, seven states) is
\* accepted.
C11_DanglingRejected ==
    /\ (verdict # "pending" /\ dangling(graph)) => verdict = "rejected"
    /\ executing => (verdict = "accepted" /\ ~dangling(graph))
    /\ (verdict # "pending" /\ graph = Workflow) => verdict = "accepted"
    /\ Workflow.StartAt = "ClassifyDocument"
    /\ Cardinality(namesIn(Workflow)) = 7

\* Only the catch rule of ClassifyDocument dangles, and the graph is rejected.
C11_Witness ==
    /\ verdict = "rejected"
    /\ graph.StartAt = StartAt
    /\ graph.States["ClassifyDocument"].Catch[1].Next \notin namesIn(graph)
    /\ \A n \in namesIn(graph) \ {"ClassifyDocument"} :
          graph.States[n] = Workflow.States[n]
    /\ graph.States["ClassifyDocument"].Next \in namesIn(graph)

lastRecord == history[Len(history)]
lastCall == calls[Len(calls)]

\* The last invocation failed and no retry or catch rule of its step takes
\* the failure.
propagated ==
    /\ calls # <<>>
    /\ lastCall.outcome \in FailureCategories
    /\ matchRetry(States(lastCall.state), lastCall.outcome) = 0
    /\ matchCatch(States(lastCall.state), lastCall.outcome) = 0

\* C12: the status is Failed exactly when the Fail state
\* ClassificationFailed was reached, with error ClassificationError and its
\* cause; it is Crashed exactly when a failure got past every rule of its
\* step, which any failure of ExtractDocumentData or ProcessExtractedData
\* does; both carry a category and a cause.
C12_FailedVersusCrashed ==
    /\ status = "Failed" <=>
          (history # <<>> /\ States(lastRecord.stateName).Type = "Fail")
    /\ status = "Failed" =>
          /\ current = "ClassificationFailed"
          /\ failure = [category |-> "ClassificationError",
                        cause |-> "Unable to classify document"]
          /\ ~propagated
    /\ status = "Crashed" <=> propagated
    /\ status = "Crashed" =>
          /\ current = lastCall.state
          /\ failure.category = lastCall.outcome
    /\ \A i \in 1..Len(calls) :
          (/\ calls[i].state \in {"ExtractDocumentData", "ProcessExtractedData"}
           /\ calls[i].outcome # "ok") =>
              (i = Len(calls) /\ status = "Crashed")
    /\ status \in {"Failed", "Crashed"} =>
          (failure.category # "" /\ failure.cause # "")

C12_Witness ==
    /\ status = "Crashed"
    /\ lastCall.state = "ExtractDocumentData"
    /\ lastCall.outcome = "States.Timeout"
    /\ failure.category = "States.Timeout"
    /\ failure.cause # ""

\* C13: once the cancellation signal is set no unit of work is invoked, no
\* step runs, the backoff wait in progress does not complete, the only
\* thing that happens is the end in status Cancelled, which is final, and
\* it does happen.
C13_Cancellation ==
    /\ [][cancelRequested =>
             /\ calls' = calls
             /\ history' = history /\ doc' = doc /\ current' = current
             /\ elapsed' = elapsed /\ phase' = phase
             /\ cancelRequested'
             /\ status = "Running" => status' = "Cancelled"
             /\ status = "Cancelled" => status' = "Cancelled"]_vars
    /\ (cancelRequested ~> status = "Cancelled")

\* Cancelled during the second backoff wait: 2 waited in full, 4 cut short.
C13_Witness ==
    /\ status = "Cancelled"
    /\ phase = "waiting"
    /\ waited = 4
    /\ elapsed = 2
    /\ Len(calls) = 2

\* C14: in every response of the classifier, needManualReview is true
\* exactly when the confidence of that response is below 0.85.
C14_ReviewIffBelow085 ==
    handler = "DocumentClassifier" =>
        (get(response, <<"needManualReview">>) = Bool(TRUE)
            <=> get(response, <<"classificationResult", "confidence">>).n < 8500)

flagOf(d) == get(d, <<"classificationResult", "needManualReview">>)
below07(d) == confidenceOf(d).t = "num" /\ confidenceOf(d).n < 70

\* The steps of CheckClassification taken so far.
checks == SelectSeq(history, LAMBDA h : h.stateName = "CheckClassification")

transforms == SelectSeq(history, LAMBDA h : h.stateName = "TransformForExtraction")

\* C16: after TransformForExtraction, extractionInput.document holds every
\* field of the original document plus metadata = {classified: true, type:
\* the classified documentType}, extractionInput holds the documentType
\* and confidence of the classification, and document and
\* classificationResult are as before.
C16_TransformMerges ==
    \A i \in 1..Len(transforms) :
        LET before == transforms[i].inputSnapshot
            after == transforms[i].outputSnapshot
            out == get(after, <<"extractionInput">>)
        IN  /\ \A k \in Fields(get(before, <<"document">>)) :
                  get(out, <<"document", k>>) = get(before, <<"document", k>>)
            /\ get(out, <<"document", "metadata">>) =
                  Obj([classified |-> Bool(TRUE), type |-> typeOf(before)])
            /\ get(out, <<"documentType">>) = typeOf(before)
            /\ get(out, <<"confidence">>) = confidenceOf(before)
            /\ get(after, <<"document">>) = get(before, <<"document">>)
            /\ classification(after) = classification(before)

\* The top-level fields a step may write: those of its ResultPath and of
\* the ResultPath of its catch rules.
written(st) ==
    (IF "ResultPath" \in DOMAIN st /\ st.ResultPath # Root
     THEN {st.ResultPath[1]} ELSE {})
        \cup {CatchRules(st)[i].ResultPath[1] : i \in 1..Len(CatchRules(st))}

\* C17: every invocation of a step with an InputPath is sent exactly the
\* value at that path (ExtractDocumentData: the value of extractionInput
\* and nothing else), a step with neither InputPath nor Parameters is sent
\* the whole document, and the invocation leaves every field of the
\* document other than the step's result fields as it was.
C17_InputRestriction ==
    [][calls' # calls =>
          LET c == calls'[Len(calls')]
              st == States(c.state)
          IN  /\ c.state = current
              /\ c.state = "ExtractDocumentData" =>
                    /\ c.input = get(doc, <<"extractionInput">>)
                    /\ c.input # doc
              /\ ("InputPath" \in DOMAIN st /\ "Parameters" \notin DOMAIN st) =>
                    c.input = get(doc, st.InputPath)
              /\ ("InputPath" \notin DOMAIN st /\ "Parameters" \notin DOMAIN st) =>
                    c.input = doc
              /\ \A k \in Fields(doc) \ written(st) :
                    get(doc', <<k>>) = get(doc, <<k>>)]_vars

\* ExtractDocumentData was sent extractionInput, which lacks the
\* classificationResult the document has, and the document still holds it.
C17_Witness ==
    /\ calls # <<>>
    /\ lastCall.state = "ExtractDocumentData"
    /\ lastCall.outcome = "ok"
    /\ lastCall.input = get(doc, <<"extractionInput">>)
    /\ Fields(lastCall.input) =
          {"document", "documentType", "confidence", "QueryLanguage", "Query"}
    /\ "classificationResult" \in Fields(doc)
    /\ "extractionResult" \in Fields(doc)

actionFor ==
    [INVOICE |-> "PAYMENT_PROCESSING", RECEIPT |-> "EXPENSE_RECORDING",
     PURCHASE_ORDER |-> "ORDER_FULFILLMENT", CONTRACT |-> "CONTRACT_MANAGEMENT"]

C19_RoutesOnActionType ==
    handler = "BusinessAction" =>
        requests =
            << [endpoint |->
                    IF get(event, <<"actionType">>) = Str("processPayment")
                    THEN "PAYMENT_PROCESSOR_ENDPOINT"
                    ELSE "ORDER_MANAGEMENT_ENDPOINT",
                data |-> get(event, <<"extractedData">>)] >>

fieldsFor ==
    [INVOICE |-> {"invoiceNumber", "invoiceDate", "dueDate", "vendorName",
                  "totalAmount", "currency", "lineItems"},
     RECEIPT |-> {"receiptNumber", "date", "merchantName", "totalAmount",
                  "currency", "paymentMethod"},
     PURCHASE_ORDER |-> {"poNumber", "orderDate", "deliveryDate", "supplier",
                         "totalAmount", "currency"},
     CONTRACT |-> {"contractNumber", "effectiveDate", "expirationDate",
                   "parties", "contractValue", "currency"}]

\* C20: the DataExtractor returns the documentType of its event; INVOICE,
\* RECEIPT, PURCHASE_ORDER and CONTRACT each get their own fields, the same
\* for every event of that type; any other type gets documentId (the
\* s3Key of the event), extractionDate and status; metadata.confidence is
\* 0.95.
C20_ExtractorByType ==
    handler = "DataExtractor" =>
        LET dt == get(event, <<"documentType">>)
            data == get(response, <<"extractedData">>)
            fields == get(data, <<"fields">>)
            named == dt.t = "str" /\ dt.s \in DOMAIN fieldsFor
        IN  /\ get(data, <<"documentType">>) = dt
            /\ named =>
                  /\ Fields(fields) = fieldsFor[dt.s]
                  /\ \A e \in ExtractorEvents, t \in Clock :
                        get(e, <<"documentType">>) = dt =>
                            get(dataExtractor(e, t),
                                <<"extractedData", "fields">>) = fields
            /\ ~named =>
                  /\ Fields(fields) = {"documentId", "extractionDate", "status"}
                  /\ get(fields, <<"documentId">>) = get(event, <<"s3Key">>)
            /\ get(data, <<"metadata", "confidence">>) = Num(9500)

C20_Witness ==
    /\ handler = "DataExtractor"
    /\ get(event, <<"documentType">>) = Str("FORM")
    /\ get(event, <<"s3Key">>) = Str("uploads/d2.pdf")
    /\ get(response, <<"extractedData", "documentType">>) = Str("FORM")
    /\ get(response, <<"extractedData", "fields", "documentId">>) = Str("uploads/d2.pdf")
    /\ get(response, <<"extractedData", "metadata", "confidence">>) = Num(9500)

\* A step completes: the execution moves to another state or ends otherwise
\* than by cancellation.
stepCompletes ==
    \/ current' # current
    \/ status = "Running" /\ status' \in {"Succeeded", "Failed", "Crashed"}

historyGrows ==
    /\ IsPrefix(history, history')
    /\ Len(history') <= Len(history) + 1
    /\ Len(history') = Len(history) + 1 <=> stepCompletes
    /\ Len(history') = Len(history) + 1 =>
          history'[Len(history')].stateName = current
    /\ phase' = "waiting" => history' = history

historyInOrder ==
    /\ history # <<>> => history[1].stateName = StartAt
    /\ \A i \in 1..(Len(history) - 1) :
          history[i].next = history[i + 1].stateName
    /\ (history # <<>> /\ status \in {"Running", "Cancelled"}) =>
          lastRecord.next = current

\* C21: the history only grows, by one record exactly when a step
\* completes, the new record being that of the state that ran; a retry
\* adds none; the records are in execution order, starting at StartAt,
\* each naming as next the state of the record after it.
C21_HistoryAppendOnly == [][historyGrows]_vars /\ []historyInOrder

\* Five steps, six invocations: three failed attempts of the classifier
\* added no record.
C21_Witness ==
    /\ status = "Succeeded"
    /\ Len(history) = 5
    /\ Len(calls) = 6
    /\ names(history) = HappyPath

\* The first rule of the task, in declaration order, naming the category.
firstRule(category) ==
    IF category \in task.Retry[1].ErrorEquals THEN 1
    ELSE IF category \in task.Retry[2].ErrorEquals THEN 2
    ELSE 0

\* The earlier attempts whose failure falls under the same rule as attempt i.
earlierUnder(i) ==
    Cardinality({j \in 1..(i - 1) :
                    firstRule(attempts[j].category) = firstRule(attempts[i].category)})

\* C22: a failure is retried exactly when the first rule naming its
\* category has had fewer earlier failures of its own than its MaxAttempts,
\* whatever the other rule has consumed, and the wait is that of the
\* rule's own count.
C22_CountedPerRule ==
    \A i \in 1..Len(attempts) :
        LET r == firstRule(attempts[i].category)
        IN  /\ attempts[i].do = "retry" <=>
                  (r > 0 /\ earlierUnder(i) < task.Retry[r].MaxAttempts)
            /\ attempts[i].do = "retry" =>
                  /\ attempts[i].rule = r
                  /\ attempts[i].delay =
                        task.Retry[r].IntervalSeconds
                            * Pow(task.Retry[r].BackoffRate, earlierUnder(i))

\* A failure is retried under its rule although the attempts made so far,
\* all under the other rule, number as many as this rule allows.
C22_Witness ==
    /\ Len(attempts) = 3
    /\ task.Retry[1].ErrorEquals = {"States.TaskFailed"}
    /\ task.Retry[1].MaxAttempts = 2
    /\ task.Retry[2].MaxAttempts = 2
    /\ attempts[1].category = "States.Timeout"
    /\ attempts[2].category = "States.Timeout"
    /\ attempts[3].category = "States.TaskFailed"
    /\ attempts[3].do = "retry"
    /\ attempts[3].rule = 1
    /\ spent = <<1, 2>>

\* The first catch rule of the state, in declaration order, that names the
\* category or States.ALL.
firstCatch(st, category) ==
    LET rules == IF "Catch" \in DOMAIN st THEN st.Catch ELSE <<>>
        fits(i) == rules[i].ErrorEquals \cap {category, "States.ALL"} # {}
    IN  IF \E i \in 1..Len(rules) : fits(i)
        THEN CHOOSE i \in 1..Len(rules) : fits(i) /\ \A j \in 1..(i - 1) : ~fits(j)
        ELSE 0

namedByRetry(st, category) ==
    /\ "Retry" \in DOMAIN st
    /\ \E i \in 1..Len(st.Retry) : category \in st.Retry[i].ErrorEquals

\* C23: a failure that no retry rule of its step names is the last
\* invocation of that step: the first matching catch rule takes it, or the
\* execution ends Crashed. A States.Timeout of ClassifyDocument is its only
\* invocation, the failure is put at error and ClassificationFailed is
\* next.
C23_UnmatchedNotRetried ==
    /\ \A i \in 1..Len(calls) :
          LET c == calls[i]
              st == States(c.state)
          IN  (c.outcome # "ok" /\ ~namedByRetry(st, c.outcome)) =>
                /\ \A j \in (i + 1)..Len(calls) : calls[j].state # c.state
                /\ \E n \in 1..Len(history) :
                      /\ history[n].stateName = c.state
                      /\ IF firstCatch(st, c.outcome) > 0
                         THEN /\ history[n].status = "Caught"
                              /\ history[n].next = st.Catch[firstCatch(st, c.outcome)].Next
                         ELSE /\ history[n].status = "Crashed"
                              /\ status = "Crashed"
    /\ \A i \in 1..Len(callsAt("ClassifyDocument")) :
          callsAt("ClassifyDocument")[i].outcome = "States.Timeout" =>
              /\ i = Len(callsAt("ClassifyDocument"))
              /\ history # <<>>
              /\ history[1].status = "Caught"
              /\ history[1].next = "ClassificationFailed"
              /\ get(doc, <<"error">>) = FailurePayload("States.Timeout")
              /\ get(history[1].outputSnapshot, <<"document">>)
                    = get(history[1].inputSnapshot, <<"document">>)

\* One invocation, timed out, caught: the execution is at ClassificationFailed.
C23_Witness ==
    /\ Len(calls) = 1
    /\ calls[1].state = "ClassifyDocument"
    /\ calls[1].outcome = "States.Timeout"
    /\ calls[1].delay = 0
    /\ current = "ClassificationFailed"
    /\ get(doc, <<"error", "Error">>) = Str("States.Timeout")

isProcessStep(st) == "Resource" \in DOMAIN st /\ st.Resource = "BusinessAction"

\* C24: what a step with Parameters sends (or, for a Pass state, yields)
\* has exactly the declared fields, a reference field holding its
\* expression's value on the current document and a literal field its
\* literal, whether or not the step also has an InputPath; for
\* ProcessExtractedData these are actionType, extractedData, documentId,
\* QueryLanguage and Query, and no field of the document.
C24_ParametersPrecedence ==
    projected # NotInjected =>
        LET params == projecting.Parameters
        IN  /\ Fields(projected) = DOMAIN params
            /\ \A k \in DOMAIN params :
                  projected.f[k] = IF params[k].ref THEN eval(params[k].x, pre)
                                   ELSE params[k].x
            /\ "InputPath" \in DOMAIN projecting =>
                  projected # get(pre, projecting.InputPath)
            /\ isProcessStep(projecting) =>
                  /\ Fields(projected) = {"actionType", "extractedData",
                                          "documentId", "QueryLanguage", "Query"}
                  /\ Fields(projected) \cap Fields(pre) = {}
                  /\ get(projected, <<"extractedData">>)
                        = get(pre, <<"extractionResult", "extractedData">>)
                  /\ get(projected, <<"documentId">>) = get(pre, <<"document", "id">>)
                  /\ get(projected, <<"QueryLanguage">>) = Str("JSONata")
                  /\ get(projected, <<"Query">>) = ActionQuery
                  /\ get(projected, <<"actionType">>) =
                        IF get(pre, <<"extractionInput", "documentType">>) = Str("INVOICE")
                        THEN Str("processPayment") ELSE Str("createOrder")

\* ProcessExtractedData with an InputPath as well: the projection is sent.
C24_Witness ==
    /\ projected # NotInjected
    /\ isProcessStep(projecting)
    /\ "InputPath" \in DOMAIN projecting
    /\ projecting.InputPath = <<"extractionInput">>
    /\ pre = extractedDoc(Str("INVOICE"))
    /\ get(projected, <<"actionType">>) = Str("processPayment")
    /\ get(projected, <<"documentId">>) = Str("d1")
    /\ get(projected, <<"extractedData", "invoiceNumber">>) = Str("INV-2025-001")

\* C25: a classification with a documentType and a confidence that is
\* null, absent or not a number does not fail CheckClassification and does
\* not match its confidence condition: the step succeeds and takes the
\* Default.
C25_NonNumericNeverMatches ==
    \A n \in 1..Len(history) :
        LET d == history[n].inputSnapshot
        IN  (/\ history[n].stateName = "CheckClassification"
             /\ typeOf(d) # Null
             /\ confidenceOf(d).t # "num") =>
                /\ history[n].status = "Succeeded"
                /\ history[n].next = CheckClassification.Default
                /\ history[n].outputSnapshot = d
                /\ status = "Crashed" => current # "CheckClassification"

\* A confidence of 'high' went on to the Default.
C25_Witness ==
    /\ Len(checks) = 1
    /\ typeOf(checks[1].inputSnapshot) = Str("INVOICE")
    /\ confidenceOf(checks[1].inputSnapshot) = Str("high")
    /\ checks[1].next = "TransformForExtraction"
    /\ current = "TransformForExtraction"

TaskStates ==
    {"ClassifyDocument", "ExtractDocumentData", "ProcessExtractedData",
     "ManualReview"}

\* A step taken at a Choice or Pass state leaves the calls as they are, and
\* no step makes more than one call.
noCallOutsideTasks ==
    /\ States(current).Type \in {"Choice", "Pass", "Fail"} => calls' = calls
    /\ \/ calls' = calls
       \/ /\ Len(calls') = Len(calls) + 1
          /\ calls'[Len(calls')].state = current
          /\ \A i \in 1..Len(calls) : calls'[i] = calls[i]

\* One state is current; every call was made at one of the four Task states;
\* an execution that succeeded without a failed call on a classification of
\* confidence 0.7 or more made exactly three calls.
callsOnlyAtTasks ==
    /\ current \in StateNames
    /\ \A i \in 1..Len(calls) :
          /\ calls[i].state \in TaskStates
          /\ States(calls[i].state).Type = "Task"
    /\ (/\ status = "Succeeded"
        /\ \A i \in 1..Len(calls) : calls[i].outcome = "ok"
        /\ typeOf(doc) # Null
        /\ confidenceOf(doc).t = "num"
        /\ confidenceOf(doc).n >= 70) =>
            /\ Len(calls) = 3
            /\ calls[1].state = "ClassifyDocument"
            /\ calls[2].state = "ExtractDocumentData"
            /\ calls[3].state = "ProcessExtractedData"
            /\ States(calls[1].state).Resource = "DocumentClassifier"
            /\ States(calls[2].state).Resource = "DataExtractor"
            /\ States(calls[3].state).Resource = "BusinessAction"

\* C26: one state is in flight at a time, Choice and Pass steps invoke no
\* unit of work, units of work are invoked only at ClassifyDocument,
\* ExtractDocumentData, ProcessExtractedData and ManualReview, and a
\* failure-free execution of confidence 0.7 or more makes exactly three
\* invocations: classifier, extractor, processor, in that order.
C26_InvocationsOnlyAtTasks == [][noCallOutsideTasks]_vars /\ []callsOnlyAtTasks

\* A failure-free execution of confidence 0.94 ended after its three calls.
C26_Witness ==
    /\ status = "Succeeded"
    /\ confidenceOf(doc) = Num(94)
    /\ Len(calls) = 3
    /\ \A i \in 1..Len(calls) : calls[i].outcome = "ok"
    /\ names(history) = HappyPath

\* The execution as a function of the input document and of the outcomes of
\* the calls made so far: the steps are replayed from the start state, a Task
\* state consuming the next outcome, until an outcome is missing or the
\* execution has ended.
replayStart(input) ==
    [current |-> StartAt, doc |-> input, retries |-> freshRetries(StartAt),
     status |-> "Running", history |-> <<>>]

replayMove(c, after, outcome, next) ==
    [current |-> next, doc |-> after, retries |-> freshRetries(next),
     status |-> "Running",
     history |-> Append(c.history,
                    stepRecord(c.current, c.doc, after, outcome, next))]

replayEnd(c, after, outcome, final) ==
    [c EXCEPT !.doc = after, !.status = final,
              !.history = Append(c.history,
                             stepRecord(c.current, c.doc, after, outcome, ""))]

replayDone(c, st, after) ==
    IF "End" \in DOMAIN st /\ st.End
    THEN replayEnd(c, after, "Succeeded", "Succeeded")
    ELSE replayMove(c, after, "Succeeded", st.Next)

RECURSIVE replay(_, _)
replay(c, outs) ==
    IF c.status # "Running" THEN c
    ELSE LET st == States(c.current)
         IN  IF st.Type = "Task"
             THEN IF outs = <<>> THEN c
                  ELSE LET o == Head(outs)
                           todo == onFailure(st, c.retries, o.outcome)
                       IN  IF o.outcome = "ok"
                           THEN replay(replayDone(c, st,
                                           absorb(c.doc, st, o.result)),
                                       Tail(outs))
                           ELSE IF todo.do = "retry"
                           THEN replay([c EXCEPT !.retries[todo.rule] = @ + 1],
                                       Tail(outs))
                           ELSE IF todo.do = "catch"
                           THEN LET rule == CatchRules(st)[todo.rule]
                                IN  replay(replayMove(c,
                                               injectResult(c.doc, rule.ResultPath,
                                                   FailurePayload(o.outcome)),
                                               "Caught", rule.Next),
                                           Tail(outs))
                           ELSE replayEnd(c, c.doc, "Crashed", "Crashed")
             ELSE IF st.Type = "Pass"
             THEN replay(replayDone(c, st,
                             absorb(c.doc, st, effectiveInput(c.doc, st))), outs)
             ELSE IF st.Type = "Choice"
             THEN replay(replayMove(c, c.doc, "Succeeded",
                                    chooseNext(st, c.doc)), outs)
             ELSE replayEnd(c, c.doc, "Failed", "Failed")

inputDocument == IF history = <<>> THEN doc ELSE history[1].inputSnapshot

\* C27: the states visited are a function of the input document and of the
\* outcomes of the units of work: every completed step names one next state
\* (none when it ends the execution), the history is a prefix of the replay
\* of the input under the outcomes so far, and an execution that ended by
\* itself ended with the replay's history, status and document.
C27_Deterministic ==
    LET r == replay(replayStart(inputDocument), calls)
    IN  /\ \A n \in 1..Len(history) :
              /\ history[n].next \in StateNames \cup {""}
              /\ n < Len(history) => history[n].next = history[n + 1].stateName
        /\ IsPrefix(history, r.history)
        /\ Len(history) = Len(r.history) =>
              /\ current = r.current
              /\ doc = r.doc
        /\ status \in {"Succeeded", "Failed", "Crashed"} =>
              /\ history = r.history
              /\ status = r.status

\* An execution whose first call failed and was retried ended as its replay
\* does, on the five states of the automated path.
C27_Witness ==
    /\ status = "Succeeded"
    /\ Len(calls) = 4
    /\ calls[1].outcome = "States.TaskFailed"
    /\ names(history) = HappyPath
    /\ replay(replayStart(inputDocument), calls).history = history

allRetries(g) ==
    UNION {{g.States[n].Retry[i].ErrorEquals : i \in 1..Len(RetryRules(g.States[n]))} :
              n \in DOMAIN g.States}

allCatches(g) ==
    UNION {{g.States[n].Catch[i].ErrorEquals : i \in 1..Len(CatchRules(g.States[n]))} :
              n \in DOMAIN g.States}

exhausted(st) == [i \in 1..Len(RetryRules(st)) |-> RetryRules(st)[i].MaxAttempts]

\* C28: the wildcard category is for catch rules only. A graph with
\* States.ALL in a retry rule is rejected and never executed; the workflow's
\* only retry rule names States.TaskFailed and its only catch rule names
\* States.ALL, so that a failure of any category at ClassifyDocument that is
\* not retried is caught and sent to ClassificationFailed.
C28_WildcardOnlyInCatch ==
    /\ (verdict # "pending" /\ \E e \in allRetries(graph) : "States.ALL" \in e) =>
            verdict = "rejected"
    /\ executing => \A e \in allRetries(graph) : "States.ALL" \notin e
    /\ allRetries(Workflow) = {{"States.TaskFailed"}}
    /\ allCatches(Workflow) = {{"States.ALL"}}
    /\ (verdict # "pending" /\ graph = Workflow) => verdict = "accepted"
    /\ \A category \in FailureCategories :
          LET todo == onFailure(ClassifyDocument, exhausted(ClassifyDocument),
                                category)
          IN  /\ todo.do = "catch"
              /\ CatchRules(ClassifyDocument)[todo.rule].Next = "ClassificationFailed"
              /\ States("ClassificationFailed").Type = "Fail"

\* The workflow with States.ALL as the category of its retry rule, and
\* nothing else changed, was rejected.
C28_Witness ==
    /\ graph = withRetryOn(Workflow, {"States.ALL"})
    /\ verdict = "rejected"

\* C29: whatever the event, the DocumentClassifier handler returns one of
\* the five document types, never null, and a confidence from 0.7 to 1.0
\* inclusive (7000 to 10000 ten-thousandths).
C29_ClassifierRange ==
    handler = "DocumentClassifier" =>
        LET dt == get(response, <<"classificationResult", "documentType">>)
            c == get(response, <<"classificationResult", "confidence">>)
        IN  /\ dt \in {Str("INVOICE"), Str("RECEIPT"), Str("PURCHASE_ORDER"),
                       Str("CONTRACT"), Str("FORM")}
            /\ dt # Null
            /\ c.t = "num"
            /\ c.n >= 7000
            /\ c.n <= 10000
            /\ \A e \in ClassifierEvents : documentClassifier(e, rnd) = response

\* The largest random draws gave FORM with a confidence of 1.0.
C29_Witness ==
    /\ handler = "DocumentClassifier"
    /\ rnd = [first |-> 99999, second |-> 99999]
    /\ get(response, <<"classificationResult", "documentType">>) = Str("FORM")
    /\ get(response, <<"classificationResult", "confidence">>) = Num(10000)

ended == status \in {"Succeeded", "Failed", "Crashed", "Cancelled"}

\* C30: once the execution has ended (Succeeded at a state marked End,
\* Failed at ClassificationFailed, Crashed, or Cancelled) no step changes
\* anything: no unit of work is invoked, no state is entered, and the
\* document, the status and its category and cause stay as they are.
C30_TerminalAbsorbing ==
    [][ended => UNCHANGED <<calls, current, phase, history, doc, status,
                            failure, retries, waited, elapsed>>]_vars

\* The execution ended at ManualReview after its call, and no further call
\* can be made.
C30_Witness ==
    /\ status = "Succeeded"
    /\ current = "ManualReview"
    /\ calls # <<>>
    /\ calls[Len(calls)].state = "ManualReview"
    /\ calls[Len(calls)].outcome = "ok"
    /\ history # <<>>
    /\ history[Len(history)].next = ""
    /\ ~ENABLED InvokeStep

\* The longest path of the graph has five states; ClassifyDocument is called
\* once and once more for each retry, the two Task states after it once.
MostSteps == Len(HappyPath)
MostInvocations == 1 + ClassifyDocument.Retry[1].MaxAttempts + 2

boundedRun ==
    /\ Len(history) <= MostSteps
    /\ Len(calls) <= MostInvocations
    /\ \A i \in 1..Len(history) : \A j \in 1..Len(history) :
          history[i].stateName = history[j].stateName => i = j

endsWhereItShould ==
    /\ status = "Succeeded" => current \in {"ProcessExtractedData", "ManualReview"}
    /\ status = "Failed" => current = "ClassificationFailed"
    /\ status = "Crashed" => history[Len(history)].status = "Crashed"
    /\ status = "Cancelled" => cancelRequested

\* C31: every execution of the workflow ends, whatever the units of work
\* return and however they fail: Succeeded at ProcessExtractedData or
\* ManualReview, Failed at ClassificationFailed, or Crashed (or Cancelled
\* when the caller asked for it), after at most five steps, none of them
\* twice at the same state, and at most six invocations.
C31_Terminates == <>ended /\ []boundedRun /\ []endsWhereItShould

\* The longest run: three failed calls of ClassifyDocument, a fourth that
\* returns, then the extractor and the business action.
C31_Witness ==
    /\ status = "Succeeded"
    /\ current = "ProcessExtractedData"
    /\ Len(calls) = MostInvocations
    /\ Len(history) = MostSteps
    /\ ~cancelRequested

\* C32: when the response of the shipped classifier handler is what
\* ClassifyDocument injects at classificationResult, the variables of
\* CheckClassification are the handler's documentType and confidence, and
\* the classified document does not go to ClassificationFailed.
C32_HandlerComposes ==
    \A n \in 1..Len(history) :
        LET d == history[n].inputSnapshot
            res == classification(d)
        IN  (/\ history[n].stateName = "CheckClassification"
             /\ res \in HandlerResults) =>
                /\ typeOf(d) = get(res, <<"classificationResult", "documentType">>)
                /\ confidenceOf(d) = get(res, <<"classificationResult", "confidence">>)
                /\ history[n].next # "ClassificationFailed"

\* What a call of the resource can come back with.
outcomesOf(resource) ==
    {[outcome |-> "ok", result |-> r] : r \in Results(resource)}
        \cup {[outcome |-> c, result |-> Null] : c \in FailureCategories}

visited(c) == {c.history[i].stateName : i \in 1..Len(c.history)} \cup {c.current}

\* The states some execution enters from the configuration c within the
\* given number of calls.
RECURSIVE statesWithin(_, _)
statesWithin(c, more) ==
    visited(c) \cup
        (IF more = 0 \/ c.status # "Running" \/ States(c.current).Type # "Task"
         THEN {}
         ELSE UNION {statesWithin(replay(c, <<o>>), more - 1) :
                        o \in outcomesOf(States(c.current).Resource)})

ReachedStates ==
    UNION {statesWithin(replay(replayStart(input), <<>>), MostInvocations) :
              input \in Inputs}

\* C33: every state of the workflow is entered by some execution from
\* StartAt, for some input document and some outcomes of the units of work:
\* the seven states are exactly the states executions enter.
C33_NoDeadState ==
    /\ ReachedStates = StateNames
    /\ StateNames = {"ClassifyDocument", "CheckClassification",
                     "TransformForExtraction", "ExtractDocumentData",
                     "ProcessExtractedData", "ManualReview",
                     "ClassificationFailed"}
    /\ Entered \subseteq ReachedStates

\* An execution at ManualReview, the state entered only on a confidence
\* below 0.7.
C33_Witness ==
    /\ current = "ManualReview"
    /\ status = "Succeeded"
    /\ Entered = {"ClassifyDocument", "CheckClassification", "ManualReview"}
    /\ Entered \subseteq ReachedStates

tallied(kind) == Len(SelectSeq(installed, LAMBDA r : r.tally = kind))

\* C34: install.ps1 runs npm install once in each folder under the root
\* that has a package.json, in that folder, and counts the folder once, as
\* a success or as a failure; after each folder the location is the one the
\* script was started in, also when npm install failed or threw; the exit
\* code is 1 exactly when a folder failed; with no such folder the script
\* exits 0 and npm install has not run.
C34_InstallCounts ==
    /\ Len(installed) <= Len(lambdaFolders)
    /\ \A i \in 1..Len(installed) :
          /\ installed[i].folder = lambdaFolders[i].Name
          /\ installed[i].at = installed[i].folder
          /\ installed[i].tally \in {"success", "failure"}
          /\ installed[i].tally = "success" <=>
                (installed[i].outcome.kind = "exit" /\ installed[i].outcome.code = 0)
    /\ successCount = tallied("success")
    /\ failCount = tallied("failure")
    /\ successCount + failCount = Len(installed)
    /\ pc \in {"loop", "summary", "done"} =>
          /\ cwd = invokedFrom
          /\ locations = <<>>
    /\ pc \in {"summary", "done"} => Len(installed) = Len(lambdaFolders)
    /\ pc = "done" <=> exitCode # -1
    /\ pc = "done" =>
          /\ exitCode \in {0, 1}
          /\ exitCode = 1 <=> \E i \in 1..Len(installed) : installed[i].tally = "failure"
          /\ lambdaFolders = <<>> => (exitCode = 0 /\ installed = <<>>)

\* Three folders, two with a package.json: npm install threw in the first
\* and ended with 0 in the other, and the script exited with 1 where it
\* was started.
C34_Witness ==
    /\ pc = "done"
    /\ Len(dirs) = 3
    /\ Len(lambdaFolders) = 2
    /\ installed[1].outcome.kind = "throw"
    /\ installed[2].tally = "success"
    /\ successCount = 1
    /\ failCount = 1
    /\ exitCode = 1
    /\ cwd = "elsewhere"

====
